---------------------------- MODULE Spec2Model ----------------------------
(***************************************************************************)
(* A model of davtk/Wavecar.py: the WAVECAR decoder (Wavecar.__init__),    *)
(* the search-box computation (_generate_nbmax), the G-vector              *)
(* enumeration (_generate_G_points), and the operations on a decoded       *)
(* object: evaluate_wavefunc, fft_mesh and get_parchg; of parse_line of    *)
(* davtk/parse.py, and of DavTKConfig of davtk_config.py.                  *)
(*                                                                         *)
(* Numbers.  Reciprocal lattice vectors are integer triples in units of    *)
(* sqrt(_C) 1/Angstrom, so that |v.b|^2 / _C is the integer |v.B|^2 and    *)
(* the constant _C cancels exactly.  k-point coordinates are multiples of  *)
(* 1/KDen and are stored as their numerators.  The file is a sequence of   *)
(* 8-byte words.                                                           *)
(***************************************************************************)
EXTENDS Integers, Sequences, FiniteSets, TLC

\* ------------------------------------------------------------------ bounds
\* k-point coordinates are kn / KDen with kn in 0..MaxKNum
KDen == 2
MaxKNum == 1
\* the header's energy cutoff is en / EDen with en in 0..MaxEncutNum
EDen == 2
MaxEncutNum == 7
\* the reciprocal lattices of the G-vector runs: rows (1,0,0), (sh,1,0), (0,0,st)
MaxShear == 1
MaxStretch == 2
\* the files of the decoder runs: up to MaxNk k-points and MaxNb bands, a
\* header cutoff of en / EDen with en in 0..MaxDecEncutNum
MaxNk == 2
MaxNb == 2
MaxDecEncutNum == 5
\* the decoded objects of the fft_mesh and get_parchg runs: MeshNk k-points,
\* MeshNb bands, a cutoff in 1..MaxMeshEncut; the scale argument is in
\* 1..MaxScale
MeshNk == 2
MeshNb == 2
MaxMeshEncut == 2
MaxScale == 2
\* the lines given to parse_line have up to MaxLineLen characters
MaxLineLen == 3

\* the calls of DavTKConfig.parse_line on one object
MaxConfCalls == 2

\* ---------------------------------------------------------------- vectors
Dot(u, v) == u[1] * v[1] + u[2] * v[2] + u[3] * v[3]

Cross(u, v) ==
    << u[2] * v[3] - u[3] * v[2],
       u[3] * v[1] - u[1] * v[3],
       u[1] * v[2] - u[2] * v[1] >>

Norm2(u) == Dot(u, u)

Abs(x) == IF x < 0 THEN -x ELSE x

Max2(x, y) == IF x >= y THEN x ELSE y

Max3(x, y, z) == Max2(x, Max2(y, z))

\* int(x) of a float given as num/den: truncation towards zero
TruncDiv(num, den) == IF num >= 0 THEN num \div den ELSE -((-num) \div den)

\* v . b for a row vector v and the matrix b of three rows (np.dot(v, self.b))
VecMat(v, b) ==
    << v[1] * b[1][1] + v[2] * b[2][1] + v[3] * b[3][1],
       v[1] * b[1][2] + v[2] * b[2][2] + v[3] * b[3][2],
       v[1] * b[1][3] + v[2] * b[2][3] + v[3] * b[3][3] >>

\* the reciprocal lattice the decoder derives from the header's lattice, for the
\* real-space cell numbered (sh, st): rows in units of sqrt(_C)
ReciprocalLattice(sh, st) == << <<1, 0, 0>>, <<sh, 1, 0>>, <<0, 0, st>> >>

\* floor(sqrt(n / d)) for n >= 0, d > 0
FloorSqrt(n, d) == CHOOSE r \in 0..(n + 1) : r * r * d <= n /\ (r + 1) * (r + 1) * d > n

\* ------------------------------------------------------- _generate_nbmax
\* sqrt(encut * C) / bmag[i] / |sin(phi)| + 1, truncated: with sin(phi) of the
\* angle between rows p and q equal to |p x q| / (|p| |q|), the quotient is
\* sqrt(encut * |other|^2 / |p x q|^2)
BoundSin(encut, other, p, q) ==
    FloorSqrt(encut * Norm2(other), Norm2(Cross(p, q))) + 1

\* sqrt(encut * C) / bmag[i] / |sphi123| + 1, truncated: sphi123 is
\* r . (p x q) / (|r| |p x q|), so the quotient is sqrt(encut |p x q|^2 / det^2)
BoundSolid(encut, r, p, q) ==
    FloorSqrt(encut * Norm2(Cross(p, q)), Dot(r, Cross(p, q)) * Dot(r, Cross(p, q))) + 1

nbmaxA(encut, b) ==
    << BoundSin(encut, b[2], b[1], b[2]),
       BoundSin(encut, b[1], b[1], b[2]),
       BoundSolid(encut, b[3], b[1], b[2]) >>

nbmaxB(encut, b) ==
    << BoundSin(encut, b[3], b[1], b[3]),
       BoundSolid(encut, b[2], b[1], b[3]),
       BoundSin(encut, b[1], b[1], b[3]) >>

nbmaxC(encut, b) ==
    << BoundSolid(encut, b[1], b[2], b[3]),
       BoundSin(encut, b[3], b[2], b[3]),
       BoundSin(encut, b[2], b[2], b[3]) >>

generate_nbmax(encut, b) ==
    [ax \in 1..3 |-> Max3(nbmaxA(encut, b)[ax], nbmaxB(encut, b)[ax], nbmaxC(encut, b)[ax])]

\* ---------------------------------------------------- _generate_G_points
\* |(kpoint + G) . b|^2 / C, times KDen^2
EnergyK2(kpoint, G, b) ==
    Norm2(VecMat(<< kpoint[1] + KDen * G[1],
                    kpoint[2] + KDen * G[2],
                    kpoint[3] + KDen * G[3] >>, b))

\* E < self.encut
BelowCutoffMutLe(kpoint, G, b, encut) == EnergyK2(kpoint, G, b) <= KDen * KDen * encut
BelowCutoff(kpoint, G, b, encut) == EnergyK2(kpoint, G, b) < KDen * KDen * encut

\* i - 2 * nbmax - 1 if i > nbmax else i
WrapIndex(i, n) == IF i > n THEN i - 2 * n - 1 ELSE i

\* kmax: the range of the innermost loop
KMax(nbmax, gamma) == IF gamma THEN nbmax[1] + 1 ELSE 2 * nbmax[1] + 1

\* the condition of the `continue`: Python reads `gamma and A or B` as
\* `(gamma and A) or B`
SkipMutNone(gamma, k1, j2, i3) == FALSE
Skip(gamma, k1, j2, i3) ==
    \/ (gamma /\ (k1 = 0 /\ j2 < 0))
    \/ (k1 = 0 /\ j2 = 0 /\ i3 < 0)

\* the t-th triple (t from 0) the three nested loops visit: i outermost over
\* axis 3, j over axis 2, k innermost over axis 1
LoopTripleMutOrder(t, nbmax, gamma) ==
    LET K == KMax(nbmax, gamma)
        J == 2 * nbmax[2] + 1
    IN  << WrapIndex(t % K, nbmax[1]),
           WrapIndex(t \div (K * J), nbmax[2]),
           WrapIndex((t \div K) % J, nbmax[3]) >>
LoopTriple(t, nbmax, gamma) ==
    LET K == KMax(nbmax, gamma)
        J == 2 * nbmax[2] + 1
    IN  << WrapIndex(t % K, nbmax[1]),
           WrapIndex((t \div K) % J, nbmax[2]),
           WrapIndex(t \div (K * J), nbmax[3]) >>

LoopCount(nbmax, gamma) == (2 * nbmax[3] + 1) * (2 * nbmax[2] + 1) * KMax(nbmax, gamma)

generate_G_points(kpoint, gamma, nbmax, b, encut) ==
    LET visited == [t \in 1..LoopCount(nbmax, gamma) |-> LoopTriple(t - 1, nbmax, gamma)]
        Keep(G) == /\ ~Skip(gamma, G[1], G[2], G[3])
                   /\ BelowCutoff(kpoint, G, b, encut)
    IN  SelectSeq(visited, Keep)

\* ------------------------------------------------------------------ state
VARIABLES
    gargs,      \* the arguments and object fields of a _generate_G_points call
    gret,       \* what the call returned
    gpc,        \* "call" before the call, "ret" after it, "idle" when none is made
    file,       \* the input file: what was written, and its length in words
    gamma,      \* the gamma argument of Wavecar(...)
    optimize,   \* the interpreter runs with -O: assert statements are not executed
    pc,         \* the place of __init__
    pos,        \* the file offset, in 8-byte words
    err,        \* the exception __init__ ended with, "" when none
    hdr,        \* recl8, spin, rtag, nk, nb, encut, b, _nbmax, ng
    Gpoints,    \* self.Gpoints
    kpoints,    \* self.kpoints
    band_energy,\* self.band_energy
    coeffs,     \* self.coeffs
    loc,        \* the locals ispin, ink, inb, nplane, kpoint
    trace,      \* every np.fromfile call and every G-vector generation, in order
    wav,        \* the fields of a decoded object that no method assigns to
    ng,         \* self.ng of the decoded object
    calls,      \* the fft_mesh and get_parchg calls: arguments, locals, place
    sched,      \* "seq": call 2 follows call 1; "par": the calls interleave
    cmd,        \* one parse_line call of davtk/parse.py: the line, the keyword
                \* tables, its locals and the handlers it invoked
    conf        \* a DavTKConfig object and one parse_line call on it

gvars == << gargs, gret, gpc >>

dvars == << file, gamma, optimize, pc, pos, err, hdr, Gpoints, kpoints,
            band_energy, coeffs, loc, trace >>

pvars == << wav, ng, calls, sched >>

lvars == << cmd, conf >>

vars == << gargs, gret, gpc, file, gamma, optimize, pc, pos, err, hdr, Gpoints,
           kpoints, band_energy, coeffs, loc, trace, wav, ng, calls, sched,
           cmd, conf >>

KPointSet == {<<x, y, z>> : x \in 0..MaxKNum, y \in 0..MaxKNum, z \in 0..MaxKNum}

\* k-points outside the first Brillouin zone: one coordinate is 1 + 1 / KDen
\* or 2 + 1 / KDen
FarKPointSet ==
    UNION { { <<f, 0, 0>>, <<0, f, 0>>, <<0, 0, f>> } : f \in {KDen + 1, 2 * KDen + 1} }

\* --------------------------------------------------------------- the file
\* Record 1 is [recl, spin, rtag], record 2 [nk, nb, encut, lattice (9),
\* efermi], then per spin channel and k-point one record [nplane, kpoint (3),
\* (energy, unused, occupation) per band] and one record per band of nplane
\* complex coefficients; every record is padded to L words.

\* the two recognized precision tags
RtagSingle == 45200
RtagDouble == 45210

\* words one coefficient takes: complex64 is one 8-byte word, complex128 two
CoeffWords(rtag) == IF rtag = RtagDouble THEN 2 ELSE 1

Min2(x, y) == IF x <= y THEN x ELSE y

\* the number of plane waves the writer stored for a k-point: every integer
\* triple below the cutoff, or, for a gamma-only writer, one of each pair G, -G
Canonical(G) ==
    \/ G[1] > 0
    \/ (G[1] = 0 /\ G[2] > 0)
    \/ (G[1] = 0 /\ G[2] = 0 /\ G[3] >= 0)

\* the integer triples with every component within nbmax on its axis
Box(nbmax) ==
    {<<x, y, z>> : x \in (-nbmax[1])..nbmax[1],
                   y \in (-nbmax[2])..nbmax[2],
                   z \in (-nbmax[3])..nbmax[3]}

WrittenCount(kpoint, fgamma, b, encut) ==
    Cardinality(UNION { {G \in Box(n) :
                            /\ EnergyK2(kpoint, G, b) < KDen * KDen * encut
                            /\ (fgamma => Canonical(G))} :
                        n \in {generate_nbmax(encut, b)} })

\* the k-point of the idx-th (spin, k-point) block of file f, idx from 1
FileKpoint(f, idx) == f.kp[idx]

\* the plane-wave count declared in the idx-th block
FileNplane(f, idx) == f.np[idx]

\* the number of records the header implies
RecordCount(f) == 2 + f.spin * f.nk * (1 + f.nb)

MaxOver(S) == CHOOSE x \in S : \A y \in S : y <= x

\* the record length in words of a file whose records hold their payload
FitL(f) ==
    MaxOver({13, 4 + 3 * f.nb}
            \cup {CoeffWords(f.rtag) * f.np[idx] : idx \in 1..(f.spin * f.nk)})

\* the m-th coefficient (from 1) of band inb (from 1) of block idx, as a code
CoeffValue(idx, inb, m) == (idx * 10 + inb) * 100 + m

\* ---------------------------------------------------------- np.fromfile
\* the number of items np.fromfile(f, count=count) returns at offset p for
\* items of `unit` words: a negative count reads to the end of the file, and
\* a count past the end returns the items there are, without an error
Got(count, p, unit) ==
    LET avail == (file.flen - p) \div unit
    IN  IF count < 0 THEN avail ELSE Min2(count, avail)

Ev(kind, p, count, got) == [kind |-> kind, pos |-> p, count |-> count, got |-> got]

\* the (spin, k-point) block, from 1, and the band, from 1, of the record
\* that holds word p
BlockAt(p) == ((p \div file.L) - 2) \div (1 + file.nb) + 1

BandAt(p) == ((p \div file.L) - 2) % (1 + file.nb)

NoneSlot == [isNone |-> TRUE, val |-> << >>]

Slot(v) == [isNone |-> FALSE, val |-> v]

\* rtag != 45200 and rtag != 45210 is the error
RtagValidMutAny(rtag) == TRUE
RtagValid(rtag) == rtag = RtagSingle \/ rtag = RtagDouble

\* len(self.Gpoints[ink]) != nplane is the error
CountMatchesMutGe(n, nplane) == n >= nplane
CountMatches(n, nplane) == n = nplane

\* the count of the padding read after the coefficients of a band:
\* recl8 - nplane after complex64 data, recl8 - 2 * nplane after complex128
PadAfterCoeffsMutSingle(rtag, recl8, nplane) == recl8 - nplane
PadAfterCoeffs(rtag, recl8, nplane) ==
    IF rtag = RtagDouble THEN recl8 - 2 * nplane ELSE recl8 - nplane

\* the index of the first axis of self.coeffs and self.band_energy
Channel(spin, ispin) == IF spin = 2 THEN ispin + 1 ELSE 1

\* numpy broadcasting of two one-dimensional arrays of lengths m and n
Broadcastable(m, n) == m = n \/ m = 1 \/ n = 1

Stretch(v, i) == IF Len(v) = 1 THEN v[1] ELSE v[i]

\* np.allclose(x, y) of two broadcastable arrays of exact values: x, y are
\* numerators over KDen, so closeness is equality
AllClose(x, y) ==
    \A i \in 1..(IF Len(x) >= Len(y) THEN Len(x) ELSE Len(y)) :
        Stretch(x, i) = Stretch(y, i)

\* what follows the last band of a k-point: the next k-point, the next spin
\* channel, or the end of __init__
AfterKpoint(l, h) ==
    IF l.ink + 1 < h.nk
    THEN [pc |-> "krec", loc |-> [l EXCEPT !.ink = l.ink + 1, !.inb = 0]]
    ELSE IF l.ispin + 1 < h.spin
    THEN [pc |-> "krec", loc |-> [l EXCEPT !.ispin = l.ispin + 1, !.ink = 0, !.inb = 0]]
    ELSE [pc |-> "done", loc |-> l]

\* ------------------------------------------------------ Wavecar.__init__
HdrZero ==
    [recl8 |-> 0, spin |-> 0, rtag |-> 0, nk |-> 0, nb |-> 0, encut |-> 0,
     b |-> << >>, nbmax |-> << >>, ng |-> << >>]

LocZero == [ispin |-> 0, ink |-> 0, inb |-> 0, nplane |-> 0, kpoint |-> << >>]

\* lines 111-124: recl, spin, rtag and the check of rtag
ReadHeader1 ==
    /\ pc = "hdr1"
    /\ LET g == Got(3, pos, 1)
           unpacked == g = 3
           ok == unpacked /\ RtagValid(file.rtag)
       IN  /\ trace' = Append(trace, Ev("hdr1", pos, 3, g))
           /\ pos' = pos + g
           /\ hdr' = IF unpacked
                     THEN [hdr EXCEPT !.recl8 = TruncDiv(file.recl, 8),
                                      !.spin = file.spin,
                                      !.rtag = file.rtag]
                     ELSE hdr
           /\ pc' = IF ok THEN "pad1" ELSE "failed"
           /\ err' = IF ok THEN "" ELSE "ValueError"
    /\ UNCHANGED << gvars, lvars, pvars, file, gamma, optimize, Gpoints, kpoints, band_energy,
                    coeffs, loc >>

\* line 127: the padding of record 1
PadHeader1 ==
    /\ pc = "pad1"
    /\ LET g == Got(hdr.recl8 - 3, pos, 1)
       IN  /\ trace' = Append(trace, Ev("pad", pos, hdr.recl8 - 3, g))
           /\ pos' = pos + g
    /\ pc' = "hdr2"
    /\ UNCHANGED << gvars, lvars, pvars, file, gamma, optimize, err, hdr, Gpoints, kpoints,
                    band_energy, coeffs, loc >>

\* lines 130-133: nk, nb, encut, the lattice and the Fermi energy
ReadHeader2 ==
    /\ pc = "hdr2"
    /\ LET g1 == Got(3, pos, 1)
           g2 == Got(9, pos + g1, 1)
           g3 == Got(1, pos + g1 + g2, 1)
           ok1 == g1 = 3
           ok2 == ok1 /\ g2 = 9
           ok3 == ok2 /\ g3 = 1
       IN  /\ trace' = trace
                \o << Ev("hdr2", pos, 3, g1) >>
                \o (IF ok1 THEN << Ev("hdr2", pos + g1, 9, g2) >> ELSE << >>)
                \o (IF ok2 THEN << Ev("hdr2", pos + g1 + g2, 1, g3) >> ELSE << >>)
           /\ pos' = pos + g1 + (IF ok1 THEN g2 ELSE 0) + (IF ok2 THEN g3 ELSE 0)
           /\ hdr' = IF ok1
                     THEN [hdr EXCEPT !.nk = file.nk,
                                      !.nb = file.nb,
                                      !.encut = TruncDiv(file.encutNum, EDen)]
                     ELSE hdr
           /\ pc' = IF ok3 THEN "lattice" ELSE "failed"
           /\ err' = IF ok3 THEN ""
                     ELSE IF ok2 THEN "IndexError" ELSE "ValueError"
    /\ UNCHANGED << gvars, lvars, pvars, file, gamma, optimize, Gpoints, kpoints, band_energy,
                    coeffs, loc >>

\* lines 140-161: the volume, the reciprocal lattice, _nbmax and ng
DeriveLattice ==
    /\ pc = "lattice"
    /\ LET b == ReciprocalLattice(file.sh, file.st)
           nbmax == generate_nbmax(hdr.encut, b)
       IN  hdr' = [hdr EXCEPT !.b = b,
                              !.nbmax = nbmax,
                              !.ng = [ax \in 1..3 |-> nbmax[ax] * 3]]
    /\ pc' = "pad2"
    /\ UNCHANGED << gvars, lvars, pvars, file, gamma, optimize, pos, err, Gpoints, kpoints,
                    band_energy, coeffs, loc, trace >>

\* line 164: the padding of record 2
PadHeader2 ==
    /\ pc = "pad2"
    /\ LET g == Got(hdr.recl8 - 13, pos, 1)
       IN  /\ trace' = Append(trace, Ev("pad", pos, hdr.recl8 - 13, g))
           /\ pos' = pos + g
    /\ pc' = "alloc"
    /\ UNCHANGED << gvars, lvars, pvars, file, gamma, optimize, err, hdr, Gpoints, kpoints,
                    band_energy, coeffs, loc >>

\* lines 168-181: the empty containers, and the entry of the two loops
Allocate ==
    /\ pc = "alloc"
    /\ Gpoints' = [k \in 1..hdr.nk |-> NoneSlot]
    /\ kpoints' = << >>
    /\ coeffs' = [c \in 1..(IF hdr.spin = 2 THEN 2 ELSE 1) |->
                    [k \in 1..hdr.nk |-> [n \in 1..hdr.nb |-> NoneSlot]]]
    /\ band_energy' = [c \in 1..(IF hdr.spin = 2 THEN 2 ELSE 1) |-> << >>]
    /\ loc' = LocZero
    /\ pc' = IF hdr.spin >= 1 /\ hdr.nk >= 1 THEN "krec" ELSE "done"
    /\ UNCHANGED << gvars, lvars, pvars, file, gamma, optimize, pos, err, hdr, trace >>

\* lines 183-189: nplane, the k-point, and its check against spin channel 0
ReadKpointRecord ==
    /\ pc = "krec"
    /\ LET g1 == Got(1, pos, 1)
           g2 == Got(3, pos + g1, 1)
           ok1 == g1 = 1
           nplane == FileNplane(file, BlockAt(pos))
           kpoint == SubSeq(FileKpoint(file, BlockAt(pos)), 1, g2)
           first == loc.ispin = 0
           asserted == ok1 /\ ~first /\ ~optimize
           shapes == Broadcastable(Len(kpoints[loc.ink + 1]), Len(kpoint))
           e == IF ~ok1 THEN "IndexError"
                ELSE IF ~asserted THEN ""
                ELSE IF ~shapes THEN "ValueError"
                ELSE IF ~AllClose(kpoints[loc.ink + 1], kpoint) THEN "AssertionError"
                ELSE ""
       IN  /\ trace' = trace
                \o << Ev("krec", pos, 1, g1) >>
                \o (IF ok1 THEN << Ev("krec", pos + g1, 3, g2) >> ELSE << >>)
           /\ pos' = pos + g1 + (IF ok1 THEN g2 ELSE 0)
           /\ loc' = IF ok1
                     THEN [loc EXCEPT !.nplane = nplane, !.kpoint = kpoint]
                     ELSE loc
           /\ kpoints' = IF ok1 /\ first THEN Append(kpoints, kpoint) ELSE kpoints
           /\ err' = e
           /\ pc' = IF e = "" THEN "enocc" ELSE "failed"
    /\ UNCHANGED << gvars, lvars, pvars, file, gamma, optimize, hdr, Gpoints, band_energy, coeffs >>

\* lines 196-201: the energies and occupations of the bands
ReadEnocc ==
    /\ pc = "enocc"
    /\ LET g == Got(3 * hdr.nb, pos, 1)
           ok == g = 3 * hdr.nb
           c == Channel(hdr.spin, loc.ispin)
       IN  /\ trace' = Append(trace, Ev("enocc", pos, 3 * hdr.nb, g))
           /\ pos' = pos + g
           /\ band_energy' = IF ok
                             THEN [band_energy EXCEPT ![c] = Append(@, [rows |-> hdr.nb])]
                             ELSE band_energy
           /\ pc' = IF ok THEN "padk" ELSE "failed"
           /\ err' = IF ok THEN "" ELSE "ValueError"
    /\ UNCHANGED << gvars, lvars, pvars, file, gamma, optimize, hdr, Gpoints, kpoints, coeffs, loc >>

\* line 207: the padding of the k-point record
PadKpointRecord ==
    /\ pc = "padk"
    /\ LET count == hdr.recl8 - 4 - 3 * hdr.nb
           g == Got(count, pos, 1)
       IN  /\ trace' = Append(trace, Ev("pad", pos, count, g))
           /\ pos' = pos + g
    /\ pc' = "gen"
    /\ UNCHANGED << gvars, lvars, pvars, file, gamma, optimize, err, hdr, Gpoints, kpoints,
                    band_energy, coeffs, loc >>

\* lines 210-213: the G-vectors of the k-point and the check of their number;
\* kpoint + G raises for a k-point array of 0 or 2 values and broadcasts one
\* of 1 value
GenerateG ==
    /\ pc = "gen"
    /\ LET shapes == Broadcastable(Len(loc.kpoint), 3)
           kp == [i \in 1..3 |-> Stretch(loc.kpoint, i)]
           G == IF shapes
                THEN generate_G_points(kp, gamma, hdr.nbmax, hdr.b, hdr.encut)
                ELSE << >>
           ok == shapes /\ CountMatches(Len(G), loc.nplane)
           next == AfterKpoint(loc, hdr)
       IN  /\ Gpoints' = IF shapes THEN [Gpoints EXCEPT ![loc.ink + 1] = Slot(G)]
                         ELSE Gpoints
           /\ trace' = IF shapes
                       THEN Append(trace, Ev("gen", pos, loc.nplane, Len(G)))
                       ELSE trace
           /\ pc' = IF ~ok THEN "failed" ELSE IF hdr.nb >= 1 THEN "coeff" ELSE next.pc
           /\ loc' = IF ok /\ hdr.nb < 1 THEN next.loc ELSE loc
           /\ err' = IF ok THEN "" ELSE "ValueError"
    /\ UNCHANGED << gvars, lvars, pvars, file, gamma, optimize, pos, hdr, kpoints, band_energy,
                    coeffs >>

\* lines 216-229: the coefficients of one band; with an rtag that is neither
\* tag, data is not bound
ReadCoefficients ==
    /\ pc = "coeff"
    /\ LET unit == CoeffWords(hdr.rtag)
           bound == RtagValid(hdr.rtag)
           g == Got(loc.nplane, pos, unit)
           p2 == pos + unit * g
           padcount == PadAfterCoeffs(hdr.rtag, hdr.recl8, loc.nplane)
           g2 == Got(padcount, p2, 1)
           data == [m \in 1..g |-> CoeffValue(BlockAt(pos), BandAt(pos), m)]
           c == Channel(hdr.spin, loc.ispin)
           last == loc.inb + 1 >= hdr.nb
           next == AfterKpoint(loc, hdr)
       IN  /\ trace' = IF bound
                       THEN trace \o << Ev("coeff", pos, loc.nplane, g),
                                        Ev("pad", p2, padcount, g2) >>
                       ELSE trace
           /\ pos' = IF bound THEN p2 + g2 ELSE pos
           /\ coeffs' = IF bound
                        THEN [coeffs EXCEPT ![c][loc.ink + 1][loc.inb + 1] = Slot(data)]
                        ELSE coeffs
           /\ pc' = IF ~bound THEN "failed" ELSE IF last THEN next.pc ELSE "coeff"
           /\ loc' = IF ~bound THEN loc
                     ELSE IF last THEN next.loc
                     ELSE [loc EXCEPT !.inb = loc.inb + 1]
           /\ err' = IF bound THEN "" ELSE "NameError"
    /\ UNCHANGED << gvars, lvars, pvars, file, gamma, optimize, hdr, Gpoints, kpoints, band_energy >>

\* the function f with its values computed once
Tabulated(f) == CHOOSE g \in {f} : g = f

\* ------------------------------------------- the decoded object: fft_mesh
\* a complex number is the pair of its real and imaginary parts
Zero == <<0, 0>>

\* np.conj
Conj(c) == << c[1], -c[2] >>

\* self.ng = self._nbmax * 3 if precision.lower()[0] == 'n' else self._nbmax * 4
NgOfMutTwice(nbmax, precision) == << nbmax[1] * 2, nbmax[2] * 2, nbmax[3] * 2 >>
NgOf(nbmax, precision) ==
    IF precision = "normal"
    THEN << nbmax[1] * 3, nbmax[2] * 3, nbmax[3] * 3 >>
    ELSE << nbmax[1] * 4, nbmax[2] * 4, nbmax[3] * 4 >>

\* self.ng * scale
ScaleNg(n, scale) == << n[1] * scale, n[2] * scale, n[3] * scale >>

\* np.prod(self.ng)
ProdNg(n) == n[1] * n[2] * n[3]

\* (self.ng / 2).astype(np.int)
Half(n) == << n[1] \div 2, n[2] \div 2, n[3] \div 2 >>

\* gp.astype(np.int) + (self.ng / 2).astype(np.int)
IndexOf(G, n) == << G[1] + Half(n)[1], G[2] + Half(n)[2], G[3] + Half(n)[3] >>

\* -gp.astype(np.int) + (self.ng / 2).astype(np.int)
MirrorIndexOfMutSame(G, n) == IndexOf(G, n)
MirrorIndexOf(G, n) == << Half(n)[1] - G[1], Half(n)[2] - G[2], Half(n)[3] - G[3] >>

\* an index numpy accepts for an array of the shape: -n <= i < n on each axis
InRange(t, shape) == \A ax \in 1..3 : -shape[ax] <= t[ax] /\ t[ax] < shape[ax]

\* the cell a valid index names: a negative index counts from the end
CellOf(t, shape) ==
    << IF t[1] < 0 THEN t[1] + shape[1] ELSE t[1],
       IF t[2] < 0 THEN t[2] + shape[2] ELSE t[2],
       IF t[3] < 0 THEN t[3] + shape[3] ELSE t[3] >>

\* np.zeros(shape): the cells assigned to are kept, every other cell is zero
Zeros(shape) == [shape |-> shape, cells |-> << >>]

NoMesh == Zeros(<<0, 0, 0>>)

\* mesh[t]
MeshGet(mesh, t) == IF t \in DOMAIN mesh.cells THEN mesh.cells[t] ELSE Zero

\* mesh[t] = v, for a valid index t
MeshSet(mesh, t, v) ==
    [shape |-> mesh.shape,
     cells |-> [x \in (DOMAIN mesh.cells) \cup {CellOf(t, mesh.shape)} |->
                  IF x = CellOf(t, mesh.shape) THEN v ELSE mesh.cells[x]]]

\* the loop of lines 369-374 from its i-th pair on: the coefficient at the
\* index of G and, for G other than (0,0,0), its conjugate at the index of -G;
\* zip stops at the shorter of the two sequences
RECURSIVE Place(_, _, _, _, _)
Place(mesh, gps, tcoeffs, i, n) ==
    IF i > Min2(Len(gps), Len(tcoeffs)) THEN [mesh |-> mesh, err |-> ""]
    ELSE IF ~InRange(IndexOf(gps[i], n), mesh.shape)
    THEN [mesh |-> mesh, err |-> "IndexError"]
    ELSE IF gps[i] = <<0, 0, 0>>
    THEN Place(MeshSet(mesh, IndexOf(gps[i], n), tcoeffs[i]), gps, tcoeffs, i + 1, n)
    ELSE IF ~InRange(MirrorIndexOf(gps[i], n), mesh.shape)
    THEN [mesh |-> MeshSet(mesh, IndexOf(gps[i], n), tcoeffs[i]), err |-> "IndexError"]
    ELSE Place(MeshSet(MeshSet(mesh, IndexOf(gps[i], n), tcoeffs[i]),
                       MirrorIndexOf(gps[i], n), Conj(tcoeffs[i])),
               gps, tcoeffs, i + 1, n)

\* np.fft.ifftshift: the cell at index i moves to (i - n // 2) mod n on each axis
ShiftIndex(x, shape) ==
    << (x[1] - (shape[1] \div 2)) % shape[1],
       (x[2] - (shape[2] \div 2)) % shape[2],
       (x[3] - (shape[3] \div 2)) % shape[3] >>

UnshiftIndex(y, shape) ==
    << (y[1] + (shape[1] \div 2)) % shape[1],
       (y[2] + (shape[2] \div 2)) % shape[2],
       (y[3] + (shape[3] \div 2)) % shape[3] >>

Ifftshift(mesh) ==
    [shape |-> mesh.shape,
     cells |-> [y \in {ShiftIndex(x, mesh.shape) : x \in DOMAIN mesh.cells} |->
                  mesh.cells[UnshiftIndex(y, mesh.shape)]]]

\* self.coeffs[spin][kpoint][band] if self.spin == 2 else
\* self.coeffs[kpoint][band], for indices from 0 that are not negative
SelectInRange(w, spin, kpoint, band) ==
    /\ w.spin = 2 => spin < 2
    /\ kpoint < w.nk
    /\ band < w.nb

TCoeffs(w, spin, kpoint, band) == w.coeffs[Channel(w.spin, spin)][kpoint + 1][band + 1]

\* fft_mesh(kpoint, band, spin, shift) on an object whose ng is n, for indices
\* in range
fft_mesh(w, n, kpoint, band, spin, shift) ==
    LET filled == Place(Zeros(n), w.Gpoints[kpoint + 1],
                        TCoeffs(w, spin, kpoint, band), 1, n).mesh
    IN  IF shift THEN Ifftshift(filled) ELSE filled

\* ---------------------------------------------------------- get_parchg
\* phase and not np.all(self.kpoints[kpoint] == 0.)
WarnsMutPhase(phase, kpoint) == phase
Warns(phase, kpoint) == phase /\ kpoint # <<0, 0, 0>>

\* the spin channels get_parchg builds a mesh of, in order; the spin argument
\* is << >> for None and << s >> for s
ChannelsMutBoth(wspin, spin) == IF wspin = 2 THEN <<0, 1>> ELSE <<0>>
Channels(wspin, spin) ==
    IF wspin = 2
    THEN IF spin # << >> THEN << spin[1] >> ELSE <<0, 1>>
    ELSE <<0>>

\* np.fft.ifftn(mesh) * N: the transform is one-to-one and is kept as a term
\* over the mesh it is applied to
Wfr(mesh, N) == [mesh |-> mesh, N |-> N]

\* np.abs(np.conj(wfr) * wfr), multiplied by np.sign(np.real(wfr)) when signed
Den(wfr, signed) == [wfr |-> wfr, signed |-> signed]

\* the dictionary data from the densities built: 'total' alone, or 'total' the
\* sum and 'diff' the difference of the two channels
DataOf(w, spin, dens) ==
    IF w.spin = 2 /\ spin = << >>
    THEN ("total" :> [op |-> "sum", a |-> dens[1], b |-> dens[2]])
             @@ ("diff" :> [op |-> "difference", a |-> dens[1], b |-> dens[2]])
    ELSE ("total" :> [op |-> "one", a |-> dens[1], b |-> dens[1]])

\* den = np.sign(np.real(wfr)) * den happens in the two branches that build
\* one density
Signed(w, spin, phase) == phase /\ ~(w.spin = 2 /\ spin = << >>)

\* self.ng = temp_ng
RestoredNgMutKeep(temp_ng, scale) == ScaleNg(temp_ng, scale)
RestoredNg(temp_ng, scale) == temp_ng

\* ---------------------------------------------------- evaluate_wavefunc
\* np.dot(np.dot(v, self.b), r) for the row v = G + kpoint, times KDen; r is
\* an integer triple in units of 1 / sqrt(_C)
PhaseArgMutNoR(G, kpoint, b, r) ==
    Dot(VecMat(<< kpoint[1] + KDen * G[1],
                  kpoint[2] + KDen * G[2],
                  kpoint[3] + KDen * G[3] >>, b), <<1, 1, 1>>)
PhaseArg(G, kpoint, b, r) ==
    Dot(VecMat(<< kpoint[1] + KDen * G[1],
                  kpoint[2] + KDen * G[2],
                  kpoint[3] + KDen * G[3] >>, b), r)

\* the sum of two complex numbers
Add(x, y) == << x[1] + y[1], x[2] + y[2] >>

\* the sum of the coefficients c[i], i >= from, whose phase argument is 0:
\* np.exp(1j * 0) is 1
RECURSIVE SumInPhase(_, _, _)
SumInPhase(c, u, from) ==
    IF from > Len(c) THEN Zero
    ELSE IF u[from] = 0 THEN Add(c[from], SumInPhase(c, u, from + 1))
    ELSE SumInPhase(c, u, from + 1)

\* np.sum(np.dot(c, np.exp(1j * u))) / np.sqrt(self.vol), for c and u of one
\* length: the terms whose phase factor is 1 are added up, the others are
\* kept as pairs of a coefficient and its phase argument, and the division as
\* the volume divided by
WaveValue(c, u, vol) ==
    [sum  |-> SumInPhase(c, u, 1),
     rest |-> LET idx == SelectSeq([i \in 1..Len(c) |-> i], LAMBDA i : u[i] # 0)
              IN  [j \in 1..Len(idx) |-> << c[idx[j]], u[idx[j]] >>],
     vol  |-> vol]

\* ----------------------------------------------------- decoded objects
\* the m-th coefficient (from 1) of band inb of block idx
CoeffComplex(idx, inb, m) == << CoeffValue(idx, inb, m), m >>

\* the k-th k-point (from 1) of the decoded objects, as numerators over KDen
MeshKpoint(k) == << (k - 1) % (MaxKNum + 1), 0, 0 >>

\* self.vol = a[0] . (a[1] x a[2]) of the cell whose reciprocal lattice is b,
\* in units of (2 pi / sqrt(_C))^3 / det(b)^2: it is det(b) there
CellVolume(b) == Dot(b[1], Cross(b[2], b[3]))

\* the object Wavecar(filename, precision=precision, gamma=g) holds after
\* decoding a file of sp spin channels with a cubic cell and cutoff en whose
\* k-point records declare the counts generated
Decoded(sp, g, precision, en) ==
    LET b == ReciprocalLattice(0, 1)
        nbmax == generate_nbmax(en, b)
        G == Tabulated([k \in 1..MeshNk |->
                 generate_G_points(MeshKpoint(k), g, nbmax, b, en)])
    IN  [spin |-> sp, gamma |-> g, nk |-> MeshNk, nb |-> MeshNb,
         b |-> b, vol |-> CellVolume(b),
         nbmax |-> nbmax, ng0 |-> NgOf(nbmax, precision),
         kpoints |-> [k \in 1..MeshNk |-> MeshKpoint(k)],
         Gpoints |-> G,
         coeffs |-> [c \in 1..sp |-> [k \in 1..MeshNk |-> [n \in 1..MeshNb |->
                       [m \in 1..Len(G[k]) |->
                           CoeffComplex((c - 1) * MeshNk + k, n, m)]]]]]

\* the object of a file whose coefficients are all 1; at the lowest cutoff
\* its first k-point, (0,0,0), has the one G-vector (0,0,0)
UnitWavecar ==
    LET w == Decoded(1, FALSE, "normal", 1)
    IN  [w EXCEPT !.coeffs = [c \in 1..1 |-> [k \in 1..MeshNk |-> [n \in 1..MeshNb |->
                                 [m \in 1..Len(w.Gpoints[k]) |-> <<1, 0>>]]]]]

NoWavecar ==
    [spin |-> 0, gamma |-> FALSE, nk |-> 0, nb |-> 0, b |-> << >>, vol |-> 0,
     nbmax |-> <<0, 0, 0>>,
     ng0 |-> <<0, 0, 0>>, kpoints |-> << >>, Gpoints |-> << >>, coeffs |-> << >>]

\* no value returned yet
NoValue == [sum |-> Zero, rest |-> << >>, vol |-> 0]

\* a call before it is entered: its arguments, and its locals unset; self_in
\* is the object as the call found it
NewCall(op, kpoint, band, spin, phase, shift, scale) ==
    [op |-> op, kpoint |-> kpoint, band |-> band, spin |-> spin, phase |-> phase,
     shift |-> shift, scale |-> scale,
     pc |-> "idle", err |-> "", at |-> "", ng_in |-> <<0, 0, 0>>,
     warned |-> FALSE, temp_ng |-> <<0, 0, 0>>, N |-> 0, todo |-> << >>,
     mesh |-> NoMesh, tcoeffs |-> << >>, shapes |-> << >>, dens |-> << >>,
     data |-> << >>, ret |-> NoMesh,
     r |-> <<0, 0, 0>>, u |-> << >>, val |-> NoValue, self_in |-> NoWavecar]

\* evaluate_wavefunc(kpoint, band, r, spin) before it is entered
EvalCall(kpoint, band, r, spin) ==
    [NewCall("evaluate_wavefunc", kpoint, band, <<spin>>, FALSE, FALSE, 1)
        EXCEPT !.r = r]

\* ------------------------------------------------- davtk/parse.py: parse_line
\* a line is a sequence of characters: two letters, '#' and the blank, which
\* stands for every whitespace character
Chars == {"a", "b", "#", " "}

Lines == UNION { [1..n -> Chars] : n \in 0..MaxLineLen }

\* the position of the first character of the line that is not whitespace,
\* Len(line) + 1 when there is none
RECURSIVE FirstNonSpace(_, _)
FirstNonSpace(line, from) ==
    IF from > Len(line) THEN from
    ELSE IF line[from] # " " THEN from
    ELSE FirstNonSpace(line, from + 1)

\* re.search('^\s*#', line)
IsComment(line) ==
    FirstNonSpace(line, 1) <= Len(line) /\ line[FirstNonSpace(line, 1)] = "#"

\* len(line.strip()) == 0
IsBlank(line) == FirstNonSpace(line, 1) > Len(line)

\* line.split(): the maximal runs of characters that are not whitespace
RECURSIVE Split(_, _, _)
Split(line, from, word) ==
    IF from > Len(line)
    THEN IF word = << >> THEN << >> ELSE << word >>
    ELSE IF line[from] = " "
    THEN IF word = << >> THEN Split(line, from + 1, << >>)
         ELSE << word >> \o Split(line, from + 1, << >>)
    ELSE Split(line, from + 1, Append(word, line[from]))

\* k.startswith(w)
StartsWithMutReversed(k, w) == Len(k) <= Len(w) /\ SubSeq(w, 1, Len(k)) = k
StartsWith(k, w) == Len(w) <= Len(k) /\ SubSeq(k, 1, Len(w)) = w

\* [ k for k in keys if k.startswith(args[0]) ]: a dictionary holds a key once
Matches(keys, w) == {k \in keys : StartsWith(k, w)}

\* the keywords a table may register
KeyPool == { <<"a">>, <<"a", "b">>, <<"b", "a">> }

\* the handler of keyword k of a table called with the words after the first
Invocation(table, k, rest) == [table |-> table, keyword |-> k, args |-> rest]

\* a parse_line call before its first statement
NewParse(line, settings, parsers) ==
    [line |-> line, settings |-> settings, parsers |-> parsers, pc |-> "check",
     args |-> << >>, matches_settings |-> {}, matches_cmds |-> {},
     invoked |-> << >>, err |-> "", ret |-> ""]

NoCmd == NewParse(<< >>, {}, {})

\* ---------------------------------------------- davtk_config.py: DavTKConfig
\* None is the empty tuple and any other value v the tuple << v >>; numbers
\* are in tenths; a dictionary is a function
None == << >>

Some(v) == << v >>

\* d[k] = v
Put(d, k, v) == [x \in (DOMAIN d) \cup {k} |-> IF x = k THEN v ELSE d[x]]

EmptyDict == [x \in {} |-> None]

\* vtk.vtkProperty(): opacity 1.0 and white
NewProp == [opacity |-> 10, color |-> <<10, 10, 10>>, specular |-> None]

\* the options each argparse parser declares (lines 25-27, 30-37, 40-44,
\* 47-48, 51-52, 55-56); "colormap" is the positional argument
Declared(parser) ==
    CASE parser = "colormap" -> {"-name", "colormap"}
      [] parser = "atom_type" -> {"-name", "-color", "-colormap", "-radius",
                                  "-radius_field", "-opacity", "-label"}
      [] parser = "bond_type" -> {"-name", "-color", "-radius", "-opacity"}
      [] parser = "cell_box_color" -> {"-color"}
      [] parser = "picked_color" -> {"-color"}
      [] parser = "background_color" -> {"-color"}

\* nargs: the number of values an option takes
ArityOk(o, v) ==
    CASE o = "-color" -> Len(v) = 3
      [] o = "-colormap" -> Len(v) = 2
      [] o = "colormap" -> Len(v) >= 1
      [] OTHER -> TRUE

\* parser.parse_args(args) succeeds: every option given is declared and has
\* its number of values, and the positional argument of colormap is given
ParseOk(parser, opts) ==
    /\ DOMAIN opts \subseteq Declared(parser)
    /\ \A o \in DOMAIN opts : ArityOk(o, opts[o])
    /\ parser = "colormap" => "colormap" \in DOMAIN opts

\* args.<option>: None when the option is not given
Arg(opts, o) == IF o \in DOMAIN opts THEN Some(opts[o]) ELSE None

Outcome(config, e, r) == [config |-> config, err |-> e, ret |-> r]

\* lines 69-73
parse_colormap(config, opts) ==
    IF ~ParseOk("colormap", opts) THEN Outcome(config, "ArgumentError", None)
    ELSE IF Len(opts["colormap"]) % 4 # 0 THEN Outcome(config, "ValueError", None)
    ELSE Outcome([config EXCEPT !.colormaps =
                      Put(@, Arg(opts, "-name"), opts["colormap"])],
                 "", None)

\* lines 75-122
parse_atom_type(config, opts) ==
    IF ~ParseOk("atom_type", opts) THEN Outcome(config, "ArgumentError", None)
    ELSE
    LET name == Arg(opts, "-name")
        isNew == name \notin DOMAIN config.atom_types
        e0 == IF isNew
              THEN ("radius" :> Some(3)) @@ ("colormap_func" :> None)
                   @@ ("colormap_field" :> None) @@ ("radius_field" :> None)
                   @@ ("label" :> None)
                   @@ ("prop" :> [NewProp EXCEPT !.specular = Some(10)])
              ELSE config.atom_types[name]
        r0 == IF isNew THEN Some("all") ELSE None
        hasColor == "-color" \in DOMAIN opts
        e1 == IF hasColor
              THEN Put(Put(Put(e0, "prop", [e0["prop"] EXCEPT !.color = opts["-color"]]),
                           "colormap_func", None), "colormap_field", None)
              ELSE e0
        r1 == IF hasColor
              THEN IF e0["colormap_func"] # None THEN Some("all") ELSE None
              ELSE r0
        hasMap == "-colormap" \in DOMAIN opts
        mapKnown == hasMap => Some(opts["-colormap"][1]) \in DOMAIN config.colormaps
        e2 == IF hasMap /\ mapKnown
              THEN Put(Put(Put(e1, "colormap_func",
                               Some(config.colormaps[Some(opts["-colormap"][1])])),
                           "colormap_field", Some(opts["-colormap"][2])),
                       "color", None)
              ELSE e1
        r2 == IF hasMap THEN Some("all") ELSE r1
        e3 == IF "-opacity" \in DOMAIN opts
              THEN Put(e2, "prop", [e2["prop"] EXCEPT !.opacity = opts["-opacity"]])
              ELSE e2
        hasRadius == "-radius" \in DOMAIN opts
        e4 == IF hasRadius
              THEN Put(Put(e3, "radius", Some(opts["-radius"])), "radius_field", None)
              ELSE e3
        r4 == IF hasRadius
              THEN IF e3["radius_field"] # None THEN Some("all") ELSE None
              ELSE r2
        hasField == "-radius_field" \in DOMAIN opts
        e5 == IF hasField
              THEN Put(Put(e4, "radius_field", Some(opts["-radius_field"])),
                       "radius", None)
              ELSE e4
        r5 == IF hasField THEN Some("all") ELSE r4
        hasLabel == "-label" \in DOMAIN opts
        e6 == IF hasLabel
              THEN Put(e5, "label",
                       IF opts["-label"] = "NONE" THEN None ELSE Some(opts["-label"]))
              ELSE e5
        r6 == IF hasLabel THEN Some("all") ELSE r5
    IN  IF ~mapKnown
        THEN Outcome([config EXCEPT !.atom_types = Put(@, name, e1)], "KeyError", None)
        ELSE Outcome([config EXCEPT !.atom_types = Put(@, name, e6)], "", r6)

\* lines 124-144
parse_bond_type(config, opts) ==
    IF ~ParseOk("bond_type", opts) THEN Outcome(config, "ArgumentError", None)
    ELSE
    LET name == Arg(opts, "-name")
        isNew == name \notin DOMAIN config.bond_types
        e0 == IF isNew
              THEN ("opacity" :> Some(10)) @@ ("radius" :> Some(3))
                   @@ ("prop" :> [NewProp EXCEPT !.specular = Some(10)])
              ELSE config.bond_types[name]
        e1 == IF "-color" \in DOMAIN opts
              THEN Put(e0, "prop", [e0["prop"] EXCEPT !.color = opts["-color"]])
              ELSE e0
        e2 == IF "-opacity" \in DOMAIN opts
              THEN Put(e1, "prop", [e1["prop"] EXCEPT !.opacity = opts["-opacity"]])
              ELSE e1
        e3 == IF "-radius" \in DOMAIN opts
              THEN Put(e2, "radius", Some(opts["-radius"]))
              ELSE e2
        refresh == IF isNew \/ "-radius" \in DOMAIN opts THEN Some("all") ELSE None
    IN  Outcome([config EXCEPT !.bond_types = Put(@, name, e3)], "", refresh)

\* lines 146-150; SetColor(None) raises
parse_cell_box_color(config, opts) ==
    IF ~ParseOk("cell_box_color", opts) THEN Outcome(config, "ArgumentError", None)
    ELSE IF "-color" \notin DOMAIN opts
    THEN Outcome([config EXCEPT !.cell_box_color = None], "TypeError", None)
    ELSE Outcome([config EXCEPT !.cell_box_color = Some(opts["-color"]),
                                !.cell_box_prop.color = opts["-color"]],
                 "", Some("none"))

\* lines 152-156
parse_picked_color(config, opts) ==
    IF ~ParseOk("picked_color", opts) THEN Outcome(config, "ArgumentError", None)
    ELSE IF "-color" \notin DOMAIN opts
    THEN Outcome([config EXCEPT !.picked_color = None], "TypeError", None)
    ELSE Outcome([config EXCEPT !.picked_color = Some(opts["-color"]),
                                !.picked_prop.color = opts["-color"]],
                 "", Some("none"))

\* lines 158-161
parse_background_color(config, opts) ==
    IF ~ParseOk("background_color", opts) THEN Outcome(config, "ArgumentError", None)
    ELSE Outcome([config EXCEPT !.background_color = Arg(opts, "-color")],
                 "", Some("renderer"))

\* self.parsers as __init__ fills it (lines 28, 38, 45, 49, 53, 57): the
\* method registered for each keyword
Parsers ==
    ("colormap" :> "parse_colormap") @@ ("atom_type" :> "parse_atom_type")
        @@ ("bond_type" :> "parse_bond_type")
        @@ ("cell_box_color" :> "parse_bond_type")
        @@ ("picked_color" :> "parse_bond_type")
        @@ ("background_color" :> "parse_bond_type")

\* the call of a method of the object
CallMethod(method, config, opts) ==
    CASE method = "parse_colormap" -> parse_colormap(config, opts)
      [] method = "parse_atom_type" -> parse_atom_type(config, opts)
      [] method = "parse_bond_type" -> parse_bond_type(config, opts)
      [] method = "parse_cell_box_color" -> parse_cell_box_color(config, opts)
      [] method = "parse_picked_color" -> parse_picked_color(config, opts)
      [] method = "parse_background_color" -> parse_background_color(config, opts)

\* self.config after __init__ (lines 19-21 and 60-64)
NewConfig ==
    [atom_types |-> EmptyDict, bond_types |-> EmptyDict, colormaps |-> EmptyDict,
     cell_box_color |-> Some(<<10, 10, 10>>),
     background_color |-> Some(<<0, 0, 0>>),
     picked_color |-> Some(<<10, 10, 0>>),
     cell_box_prop |-> [NewProp EXCEPT !.color = <<10, 10, 10>>],
     picked_prop |-> [NewProp EXCEPT !.color = <<10, 10, 0>>]]

\* a line: its words as line.split() gives them, the first word and the
\* options after it; a blank line has no word
Line(kw, opts) == [words |-> IF kw = "" THEN 0 ELSE 1 + Cardinality(DOMAIN opts),
                   kw |-> kw, opts |-> opts]

\* the object after __init__, no call made; before is self.config as the
\* last call found it
NewConf ==
    [pc |-> "idle", config |-> NewConfig, before |-> NewConfig,
     line |-> Line("", EmptyDict), method |-> "", err |-> "", ret |-> None, n |-> 0]

\* no DavTKConfig object
NoConf == [NewConf EXCEPT !.pc = "none"]

\* no line is being interpreted
NotParsing == cmd = NoCmd /\ conf = NoConf

\* ----------------------------------------------------------- input files
\* the file a writer produces for sp spin channels, precision tag rt, nb
\* bands, a cutoff of en / EDen and k-points (kx[k] / KDen, 0, 0), fg for a
\* gamma-only writer; with kbad = k the k-point k of spin channel 1 is
\* skewed, and the declared plane-wave counts of the blocks from `from` on
\* are off by d
DecEncutNums == {en \in 0..MaxDecEncutNum : en >= MaxDecEncutNum - 3}

\* the counts the writer stored, by k-point, writer mode and cutoff numerator,
\* for the cubic cell the files are written with
WrittenCounts ==
    Tabulated([a \in {<<x, y>> : x \in 0..MaxKNum, y \in {0, KDen - 1}}
              \X BOOLEAN \X DecEncutNums |->
        WrittenCount(<<a[1][1], a[1][2], 0>>, a[2], ReciprocalLattice(0, 1),
                     TruncDiv(a[3], EDen))])

MkFile(sp, rt, nb, en, fg, kx, kbad, d, from) ==
    LET nk == Len(kx)
        kpOf(idx) ==
            LET k == ((idx - 1) % nk) + 1
            IN  IF idx > nk /\ kbad = k
                THEN << kx[k], KDen - 1, 0 >>
                ELSE << kx[k], 0, 0 >>
        raw == [L |-> 0, recl |-> 0, flen |-> 0,
                spin |-> sp, rtag |-> rt, nk |-> nk, nb |-> nb,
                encutNum |-> en, sh |-> 0, st |-> 1,
                kp |-> Tabulated([idx \in 1..(sp * nk) |-> kpOf(idx)]),
                np |-> Tabulated([idx \in 1..(sp * nk) |->
                          WrittenCounts[<< <<kpOf(idx)[1], kpOf(idx)[2]>>, fg, en >>]
                              + (IF idx >= from THEN d ELSE 0)])]
    IN  CHOOSE g \in UNION { { [f EXCEPT !.L = l, !.recl = 8 * l,
                                         !.flen = RecordCount(f) * l] :
                                 l \in {FitL(f)} } :
                             f \in {raw} } : TRUE

\* the k-point lists of the files: the first k-point is (0,0,0)
KxLists ==
    UNION { {kx \in [1..nk -> 0..MaxKNum] : kx[1] = 0} : nk \in 1..MaxNk }

Run(f, g, o) == [file |-> f, gamma |-> g, optimize |-> o]

\* files as written, opened with either value of gamma
WrittenRuns ==
    { Run(MkFile(sp, rt, nb, en, fg, kx, 0, 0, 1), g, FALSE) :
        sp \in 1..2, rt \in {RtagSingle, RtagDouble}, nb \in 1..MaxNb,
        en \in DecEncutNums, fg \in BOOLEAN, kx \in KxLists, g \in BOOLEAN }

\* a declared plane-wave count that is one off, in every block or in the
\* last one only
MiscountedRuns ==
    UNION { { Run(MkFile(sp, rt, nb, MaxDecEncutNum, g, kx, 0, d, from), g, FALSE) :
                from \in {1, sp * Len(kx)} } :
            sp \in 1..2, rt \in {RtagSingle, RtagDouble}, nb \in 1..MaxNb,
            kx \in KxLists, d \in {-1, 1}, g \in BOOLEAN }

\* a k-point of spin channel 1 that differs from the one of channel 0, with
\* and without -O; the counts are those of the k-points written
SkewedRuns ==
    UNION { { Run(MkFile(2, rt, nb, MaxDecEncutNum, TRUE, kx, k, 0, 1), TRUE, o) :
                k \in 1..Len(kx) } :
            rt \in {RtagSingle, RtagDouble}, nb \in 1..MaxNb, kx \in KxLists,
            o \in BOOLEAN }

\* a precision tag that is neither of the two
BadTagRuns ==
    { Run([MkFile(sp, RtagSingle, nb, MaxDecEncutNum, g, kx, 0, 0, 1)
              EXCEPT !.rtag = t], g, FALSE) :
        sp \in 1..2, nb \in 1..MaxNb, kx \in KxLists, g \in BOOLEAN,
        t \in {0, RtagSingle + 1, RtagDouble + 1} }

\* a record length that is not positive or not a multiple of 8; the other
\* records are where they were
BadReclRuns ==
    UNION { { Run([f EXCEPT !.recl = r], TRUE, FALSE) :
                r \in {0, -8, 12, f.recl + 4} } :
            f \in { MkFile(sp, rt, nb, MaxDecEncutNum, TRUE, kx, 0, 0, 1) :
                      sp \in 1..2, rt \in {RtagSingle, RtagDouble},
                      nb \in 1..MaxNb, kx \in KxLists } }

\* a file cut after n words
TruncatedRuns ==
    UNION { { Run([f EXCEPT !.flen = n], TRUE, FALSE) : n \in 0..(f.flen - 1) } :
            f \in { MkFile(sp, rt, nb, MaxDecEncutNum, TRUE, kx, 0, 0, 1) :
                      sp \in 1..2, rt \in {RtagSingle, RtagDouble},
                      nb \in 1..MaxNb,
                      kx \in {l \in KxLists : \A k \in 1..Len(l) : l[k] = 0} } }

\* the number of plane waves below the cutoff en / EDen itself
TrueCount(kpoint, fgamma, b, en) ==
    Cardinality(UNION { {G \in Box(n) :
                            /\ EnergyK2(kpoint, G, b) * EDen < KDen * KDen * en
                            /\ (fgamma => Canonical(G))} :
                        n \in {generate_nbmax(TruncDiv(en, EDen) + 1, b)} })

\* the file with its records as long as its payload needs
Refit(f) ==
    CHOOSE g \in { [f EXCEPT !.L = l, !.recl = 8 * l, !.flen = RecordCount(f) * l] :
                      l \in {FitL(f)} } : TRUE

\* files whose cutoff has a fractional part and whose plane-wave counts are
\* those of that cutoff
FractionalCutoffRuns ==
    { Run(Refit([MkFile(1, RtagSingle, 1, en, g, kx, 0, 0, 1) EXCEPT
                    !.np = Tabulated([idx \in 1..Len(kx) |->
                              TrueCount(<<kx[idx], 0, 0>>, g,
                                        ReciprocalLattice(0, 1), en)])]),
          g, FALSE) :
        en \in {e \in DecEncutNums : e % EDen # 0}, g \in BOOLEAN, kx \in KxLists }

\* a header whose number of spin channels is neither 1 nor 2, followed by
\* the records of that many channels
BadSpinRuns ==
    { Run(MkFile(sp, RtagSingle, nb, MaxDecEncutNum, g, kx, 0, 0, 1), g, FALSE) :
        sp \in {0, 3}, nb \in 1..MaxNb, g \in BOOLEAN, kx \in KxLists }

Runs ==
    WrittenRuns \cup MiscountedRuns \cup SkewedRuns \cup BadTagRuns
        \cup BadReclRuns \cup TruncatedRuns \cup FractionalCutoffRuns
        \cup BadSpinRuns

EmptyFile ==
    [L |-> 13, recl |-> 0, flen |-> 0, spin |-> 0, rtag |-> 0, nk |-> 0, nb |-> 0,
     encutNum |-> 0, sh |-> 0, st |-> 1, kp |-> << >>, np |-> << >>]

NoCall == [kpoint |-> <<0, 0, 0>>, gamma |-> FALSE, sh |-> 0, st |-> 1, encut |-> 0]

\* Wavecar(filename, gamma=gamma): the file is opened at offset 0
Init ==
    /\ \E r \in Runs :
          /\ file = r.file
          /\ gamma = r.gamma
          /\ optimize = r.optimize
    /\ pc = "hdr1"
    /\ pos = 0
    /\ err = ""
    /\ hdr = HdrZero
    /\ Gpoints = << >>
    /\ kpoints = << >>
    /\ band_energy = << >>
    /\ coeffs = << >>
    /\ loc = LocZero
    /\ trace = << >>
    /\ gargs = NoCall
    /\ gret = << >>
    /\ gpc = "idle"
    /\ wav = NoWavecar
    /\ ng = <<0, 0, 0>>
    /\ calls = << >>
    /\ sched = "none"
    /\ NotParsing

Next ==
    \/ ReadHeader1
    \/ PadHeader1
    \/ ReadHeader2
    \/ DeriveLattice
    \/ PadHeader2
    \/ Allocate
    \/ ReadKpointRecord
    \/ ReadEnocc
    \/ PadKpointRecord
    \/ GenerateG
    \/ ReadCoefficients

Spec == Init /\ [][Next]_vars

\* ------------------------------------------- the G-vector enumeration runs
\* one call of _generate_G_points on an object whose lattice and cutoff were
\* decoded; no file is being read
InitG ==
    /\ gargs \in [kpoint : KPointSet \cup FarKPointSet,
                  gamma  : BOOLEAN,
                  sh     : 0..MaxShear,
                  st     : 1..MaxStretch,
                  encut  : {TruncDiv(en, EDen) : en \in 0..MaxEncutNum}]
    /\ gret = << >>
    /\ gpc = "call"
    /\ file = EmptyFile
    /\ gamma = FALSE
    /\ optimize = FALSE
    /\ pc = "idle"
    /\ pos = 0
    /\ err = ""
    /\ hdr = HdrZero
    /\ Gpoints = << >>
    /\ kpoints = << >>
    /\ band_energy = << >>
    /\ coeffs = << >>
    /\ loc = LocZero
    /\ trace = << >>
    /\ wav = NoWavecar
    /\ ng = <<0, 0, 0>>
    /\ calls = << >>
    /\ sched = "none"
    /\ NotParsing

CallGenerateG ==
    /\ gpc = "call"
    /\ \E b \in {ReciprocalLattice(gargs.sh, gargs.st)} :
          \E nbmax \in {generate_nbmax(gargs.encut, b)} :
             gret' = generate_G_points(gargs.kpoint, gargs.gamma, nbmax, b, gargs.encut)
    /\ gpc' = "ret"
    /\ UNCHANGED << gargs, dvars, pvars, lvars >>

NextG == CallGenerateG

SpecG == InitG /\ [][NextG]_vars

\* --------------------------------------- the fft_mesh and get_parchg runs
\* call 2 is entered after call 1 has ended unless the calls interleave
Ended(c) == c.pc \in {"raised", "returned"}

CanRun(t) == sched = "par" \/ t = 1 \/ Ended(calls[1])

Raise(c, name) == [c EXCEPT !.pc = "raised", !.err = name, !.at = c.pc]

\* the call is made: self.ng is what it is then
Enter(t) ==
    /\ CanRun(t)
    /\ calls[t].pc = "idle"
    /\ LET c == calls[t]
       IN  calls' = [calls EXCEPT ![t] =
                        [c EXCEPT !.pc = IF c.op = "get_parchg" THEN "warn"
                                         ELSE IF c.op = "fft_mesh" THEN "zeros"
                                         ELSE "phases",
                                  !.todo = IF c.op = "get_parchg" THEN << >> ELSE c.spin,
                                  !.ng_in = ng,
                                  !.self_in = wav]]
    /\ UNCHANGED << gvars, lvars, dvars, wav, ng, sched >>

\* lines 417-419: the warning; self.kpoints[kpoint] is evaluated only when
\* phase is set
WarnPhase(t) ==
    /\ CanRun(t)
    /\ calls[t].pc = "warn"
    /\ LET c == calls[t]
           inrange == c.kpoint < wav.nk
           kp == IF inrange THEN wav.kpoints[c.kpoint + 1] ELSE <<0, 0, 0>>
       IN  calls' = [calls EXCEPT ![t] =
                        IF c.phase /\ ~inrange
                        THEN Raise(c, "IndexError")
                        ELSE [c EXCEPT !.warned = Warns(c.phase, kp), !.pc = "save"]]
    /\ UNCHANGED << gvars, lvars, dvars, wav, ng, sched >>

\* line 422: temp_ng = self.ng
SaveNg(t) ==
    /\ CanRun(t)
    /\ calls[t].pc = "save"
    /\ calls' = [calls EXCEPT ![t] = [@ EXCEPT !.temp_ng = ng, !.pc = "scale"]]
    /\ UNCHANGED << gvars, lvars, dvars, wav, ng, sched >>

\* line 423: self.ng = self.ng * scale
ScaleSelfNg(t) ==
    /\ CanRun(t)
    /\ calls[t].pc = "scale"
    /\ ng' = ScaleNg(ng, calls[t].scale)
    /\ calls' = [calls EXCEPT ![t] = [@ EXCEPT !.pc = "prod"]]
    /\ UNCHANGED << gvars, lvars, dvars, wav, sched >>

\* lines 424-428, 434, 441: N = np.prod(self.ng), and the branch on self.spin
\* and spin
ProdSelfNg(t) ==
    /\ CanRun(t)
    /\ calls[t].pc = "prod"
    /\ LET c == calls[t]
       IN  calls' = [calls EXCEPT ![t] =
                        [c EXCEPT !.N = ProdNg(ng),
                                  !.todo = Channels(wav.spin, c.spin),
                                  !.pc = "zeros"]]
    /\ UNCHANGED << gvars, lvars, dvars, wav, ng, sched >>

\* line 366: mesh = np.zeros(tuple(self.ng))
MeshZeros(t) ==
    /\ CanRun(t)
    /\ calls[t].pc = "zeros"
    /\ calls' = [calls EXCEPT ![t] =
                    [@ EXCEPT !.mesh = Zeros(ng),
                              !.shapes = Append(@, ng),
                              !.pc = "select"]]
    /\ UNCHANGED << gvars, lvars, dvars, wav, ng, sched >>

\* lines 367-368: tcoeffs
MeshSelect(t) ==
    /\ CanRun(t)
    /\ calls[t].pc = "select"
    /\ LET c == calls[t]
       IN  calls' = [calls EXCEPT ![t] =
                        IF SelectInRange(wav, c.todo[1], c.kpoint, c.band)
                        THEN [c EXCEPT !.tcoeffs = TCoeffs(wav, c.todo[1], c.kpoint, c.band),
                                       !.pc = "fill"]
                        ELSE Raise(c, "IndexError")]
    /\ UNCHANGED << gvars, lvars, dvars, wav, ng, sched >>

\* lines 369-374: the coefficients and their conjugates are placed
MeshFill(t) ==
    /\ CanRun(t)
    /\ calls[t].pc = "fill"
    /\ LET c == calls[t]
       IN  \E r \in {Place(c.mesh, wav.Gpoints[c.kpoint + 1], c.tcoeffs, 1, ng)} :
              calls' = [calls EXCEPT ![t] =
                           IF r.err = ""
                           THEN [c EXCEPT !.mesh = r.mesh, !.pc = "shift"]
                           ELSE Raise([c EXCEPT !.mesh = r.mesh], r.err)]
    /\ UNCHANGED << gvars, lvars, dvars, wav, ng, sched >>

\* lines 375-378: the mesh is returned, shifted or not
MeshReturn(t) ==
    /\ CanRun(t)
    /\ calls[t].pc = "shift"
    /\ LET c == calls[t]
       IN  \E m \in {IF c.shift THEN Ifftshift(c.mesh) ELSE c.mesh} :
              calls' = [calls EXCEPT ![t] =
                           IF c.op = "fft_mesh"
                           THEN [c EXCEPT !.ret = m, !.pc = "returned"]
                           ELSE [c EXCEPT !.mesh = m, !.pc = "density"]]
    /\ UNCHANGED << gvars, lvars, dvars, wav, ng, sched >>

\* lines 429-446: the density of the mesh; after the last one, data
Density(t) ==
    /\ CanRun(t)
    /\ calls[t].pc = "density"
    /\ LET c == calls[t]
           den == Den(Wfr(c.mesh, c.N), Signed(wav, c.spin, c.phase))
           dens == Append(c.dens, den)
           last == Len(c.todo) = 1
       IN  calls' = [calls EXCEPT ![t] =
                        [c EXCEPT !.dens = dens,
                                  !.todo = Tail(c.todo),
                                  !.data = IF last THEN DataOf(wav, c.spin, dens) ELSE << >>,
                                  !.pc = IF last THEN "restore" ELSE "zeros"]]
    /\ UNCHANGED << gvars, lvars, dvars, wav, ng, sched >>

\* line 448: self.ng = temp_ng
RestoreNg(t) ==
    /\ CanRun(t)
    /\ calls[t].pc = "restore"
    /\ ng' = RestoredNg(calls[t].temp_ng, calls[t].scale)
    /\ calls' = [calls EXCEPT ![t] = [@ EXCEPT !.pc = "return"]]
    /\ UNCHANGED << gvars, lvars, dvars, wav, sched >>

\* line 449: return Chgcar(poscar, data); the module binds no name Chgcar
ReturnChgcar(t) ==
    /\ CanRun(t)
    /\ calls[t].pc = "return"
    /\ calls' = [calls EXCEPT ![t] = Raise(@, "NameError")]
    /\ UNCHANGED << gvars, lvars, dvars, wav, ng, sched >>

\* lines 336-337: v = self.Gpoints[kpoint] + self.kpoints[kpoint] is a new
\* array, and u its phase arguments at r
EvalPhasesMutInPlace(t) ==
    /\ CanRun(t)
    /\ calls[t].pc = "phases"
    /\ calls[t].kpoint < wav.nk
    /\ LET c == calls[t]
           k == wav.kpoints[c.kpoint + 1]
           v == [i \in 1..Len(wav.Gpoints[c.kpoint + 1]) |->
                    << wav.Gpoints[c.kpoint + 1][i][1] + k[1],
                       wav.Gpoints[c.kpoint + 1][i][2] + k[2],
                       wav.Gpoints[c.kpoint + 1][i][3] + k[3] >>]
       IN  /\ wav' = [wav EXCEPT !.Gpoints[c.kpoint + 1] = v]
           /\ calls' = [calls EXCEPT ![t] =
                          [c EXCEPT !.u = [i \in 1..Len(v) |->
                                              PhaseArg(wav.Gpoints[c.kpoint + 1][i], k,
                                                       wav.b, c.r)],
                                    !.pc = "sum"]]
    /\ UNCHANGED << gvars, lvars, dvars, ng, sched >>
EvalPhases(t) ==
    /\ CanRun(t)
    /\ calls[t].pc = "phases"
    /\ LET c == calls[t]
       IN  calls' = [calls EXCEPT ![t] =
                        IF c.kpoint < wav.nk
                        THEN [c EXCEPT !.u = [i \in 1..Len(wav.Gpoints[c.kpoint + 1]) |->
                                                PhaseArg(wav.Gpoints[c.kpoint + 1][i],
                                                         wav.kpoints[c.kpoint + 1],
                                                         wav.b, c.r)],
                                       !.pc = "sum"]
                        ELSE Raise(c, "IndexError")]
    /\ UNCHANGED << gvars, lvars, dvars, wav, ng, sched >>

\* lines 338-340: the coefficients selected, and the value returned; np.dot
\* raises for sequences of two lengths
EvalSum(t) ==
    /\ CanRun(t)
    /\ calls[t].pc = "sum"
    /\ LET c == calls[t]
       IN  calls' = [calls EXCEPT ![t] =
                        IF ~SelectInRange(wav, c.todo[1], c.kpoint, c.band)
                        THEN Raise(c, "IndexError")
                        ELSE IF Len(TCoeffs(wav, c.todo[1], c.kpoint, c.band)) # Len(c.u)
                        THEN Raise(c, "ValueError")
                        ELSE [c EXCEPT !.tcoeffs = TCoeffs(wav, c.todo[1], c.kpoint, c.band),
                                       !.val = WaveValue(TCoeffs(wav, c.todo[1], c.kpoint, c.band),
                                                         c.u, wav.vol),
                                       !.pc = "returned"]]
    /\ UNCHANGED << gvars, lvars, dvars, wav, ng, sched >>

Step(t) ==
    \/ Enter(t)
    \/ WarnPhase(t)
    \/ SaveNg(t)
    \/ ScaleSelfNg(t)
    \/ ProdSelfNg(t)
    \/ MeshZeros(t)
    \/ MeshSelect(t)
    \/ MeshFill(t)
    \/ MeshReturn(t)
    \/ Density(t)
    \/ RestoreNg(t)
    \/ ReturnChgcar(t)
    \/ EvalPhases(t)
    \/ EvalSum(t)

NextP == \E t \in 1..2 : Step(t)

\* the decoded objects, and the calls made on them: indices in range and the
\* first one out of range
DecodedObjects ==
    { Decoded(sp, g, precision, en) :
        sp \in 1..2, g \in BOOLEAN, precision \in {"normal", "accurate"},
        en \in 1..MaxMeshEncut }
        \cup {UnitWavecar}

ParchgCalls ==
    { NewCall("get_parchg", k, bd, sp, ph, TRUE, sc) :
        k \in 0..MeshNk, bd \in {0, MeshNb}, sp \in {<< >>, <<0>>, <<1>>, <<2>>},
        ph \in BOOLEAN, sc \in 1..MaxScale }

MeshCalls ==
    { NewCall("fft_mesh", k, bd, <<sp>>, FALSE, sh, 1) :
        k \in 0..MeshNk, bd \in {0, MeshNb}, sp \in 0..2, sh \in BOOLEAN }

\* the positions a wavefunction is evaluated at
EvalPoints == {<<0, 0, 0>>, <<1, 0, 0>>, <<0, 1, 1>>}

EvalCalls ==
    { EvalCall(k, bd, r, sp) :
        k \in 0..MeshNk, bd \in {0, MeshNb}, r \in EvalPoints, sp \in 0..2 }

NotDecoding ==
    /\ file = EmptyFile
    /\ gamma = FALSE
    /\ optimize = FALSE
    /\ pc = "idle"
    /\ pos = 0
    /\ err = ""
    /\ hdr = HdrZero
    /\ Gpoints = << >>
    /\ kpoints = << >>
    /\ band_energy = << >>
    /\ coeffs = << >>
    /\ loc = LocZero
    /\ trace = << >>
    /\ gargs = NoCall
    /\ gret = << >>
    /\ gpc = "idle"

\* one call made twice in a row on a decoded object
InitP ==
    /\ wav \in DecodedObjects
    /\ ng = wav.ng0
    /\ \E c \in ParchgCalls \cup MeshCalls \cup EvalCalls : calls = << c, c >>
    /\ sched = "seq"
    /\ NotDecoding
    /\ NotParsing

SpecP == InitP /\ [][NextP]_vars

\* two calls with indices in range that interleave on a decoded object: a
\* get_parchg call and another one, an fft_mesh call or an evaluate_wavefunc
\* call
InitT ==
    /\ wav \in { Decoded(sp, g, "normal", MaxMeshEncut) : sp \in 1..2, g \in BOOLEAN }
    /\ ng = wav.ng0
    /\ \E c1 \in { NewCall("get_parchg", 0, 0, << >>, FALSE, TRUE, sc) :
                     sc \in 1..MaxScale } :
       \E c2 \in { NewCall("get_parchg", 0, 0, << >>, FALSE, TRUE, sc) :
                     sc \in 1..MaxScale }
                 \cup { NewCall("fft_mesh", 0, 0, <<0>>, FALSE, sh, 1) :
                          sh \in BOOLEAN }
                 \cup { EvalCall(0, 0, r, 0) : r \in EvalPoints } :
          calls = << c1, c2 >>
    /\ sched = "par"
    /\ NotDecoding
    /\ NotParsing

SpecT == InitT /\ [][NextP]_vars

\* ------------------------------------------------------ the parse_line runs
\* no decoded object is in use
NoObject ==
    /\ wav = NoWavecar
    /\ ng = <<0, 0, 0>>
    /\ calls = << >>
    /\ sched = "none"

\* lines 573-574: a comment or a blank line returns None
CheckLine ==
    /\ cmd.pc = "check"
    /\ cmd' = IF IsComment(cmd.line) \/ IsBlank(cmd.line)
              THEN [cmd EXCEPT !.ret = "None", !.pc = "returned"]
              ELSE [cmd EXCEPT !.pc = "split"]
    /\ UNCHANGED << gvars, dvars, pvars, conf >>

\* line 576: args = line.split()
SplitLine ==
    /\ cmd.pc = "split"
    /\ cmd' = [cmd EXCEPT !.args = Split(cmd.line, 1, << >>), !.pc = "match"]
    /\ UNCHANGED << gvars, dvars, pvars, conf >>

\* lines 578-579: the keywords of the two tables that start with args[0]
MatchKeywords ==
    /\ cmd.pc = "match"
    /\ cmd' = [cmd EXCEPT !.matches_settings = Matches(cmd.settings, cmd.args[1]),
                          !.matches_cmds = Matches(cmd.parsers, cmd.args[1]),
                          !.pc = "dispatch"]
    /\ UNCHANGED << gvars, dvars, pvars, conf >>

\* lines 581-595: no match, the unique match, the exact match in the settings
\* and then in the commands, or an ambiguous word
Dispatch ==
    /\ cmd.pc = "dispatch"
    /\ LET ms == cmd.matches_settings
           mc == cmd.matches_cmds
           n == Cardinality(ms) + Cardinality(mc)
           rest == Tail(cmd.args)
           call(table, k) ==
               [cmd EXCEPT !.invoked = Append(cmd.invoked, Invocation(table, k, rest)),
                           !.ret = "handler", !.pc = "returned"]
           raise == [cmd EXCEPT !.err = "ValueError", !.pc = "raised"]
       IN  cmd' = IF n = 0 THEN raise
                  ELSE IF n = 1
                  THEN IF Cardinality(ms) = 1
                       THEN call("settings", CHOOSE k \in ms : TRUE)
                       ELSE call("commands", CHOOSE k \in mc : TRUE)
                  ELSE IF cmd.args[1] \in ms THEN call("settings", cmd.args[1])
                  ELSE IF cmd.args[1] \in mc THEN call("commands", cmd.args[1])
                  ELSE raise
    /\ UNCHANGED << gvars, dvars, pvars, conf >>

NextL ==
    \/ CheckLine
    \/ SplitLine
    \/ MatchKeywords
    \/ Dispatch

\* parse_line(line, settings, state) for a line and two keyword tables
InitL ==
    /\ cmd \in { NewParse(l, S, C) :
                   l \in Lines, S \in SUBSET KeyPool, C \in SUBSET KeyPool }
    /\ conf = NoConf
    /\ NoObject
    /\ NotDecoding

SpecL == InitL /\ [][NextL]_vars

\* ------------------------------------------- the DavTKConfig.parse_line runs
\* a colour, and a colour with a value missing
ConfColors == { <<10, 0, 0>>, <<10, 0>> }

\* the options after the first word of the lines read
ConfOptions ==
    { EmptyDict,
      "-name" :> "n1",
      ("-name" :> "n1") @@ ("-radius" :> 5),
      ("-name" :> "n1") @@ ("-opacity" :> 7),
      ("-name" :> "n1") @@ ("-radius_field" :> "f"),
      ("-name" :> "n1") @@ ("-label" :> "NONE"),
      ("-name" :> "n1") @@ ("-colormap" :> <<"m1", "f">>),
      ("-name" :> "m1") @@ ("colormap" :> <<0, 0, 0, 10>>),
      "colormap" :> <<0, 0, 10>> }
        \cup { "-color" :> c : c \in ConfColors }
        \cup { ("-name" :> "n1") @@ ("-color" :> c) : c \in ConfColors }

\* the first words: the registered keywords, a word that is not registered
\* and the blank line
ConfWords == (DOMAIN Parsers) \cup {"bond", ""}

ConfLines == { Line(kw, IF kw = "" THEN EmptyDict ELSE o) :
                 kw \in ConfWords, o \in ConfOptions }

\* line 164: parse_line(line) is called on the object
CallParseLine ==
    /\ conf.pc = "idle"
    /\ conf.n < MaxConfCalls
    /\ \E l \in ConfLines :
         conf' = [conf EXCEPT !.pc = "lookup", !.line = l, !.before = conf.config,
                              !.method = "", !.err = "", !.ret = None,
                              !.n = conf.n + 1]
    /\ UNCHANGED << gvars, dvars, pvars, cmd >>

\* lines 165-168: the first word is looked up in self.parsers
Lookup ==
    /\ conf.pc = "lookup"
    /\ conf' = IF conf.line.words = 0
               THEN [conf EXCEPT !.err = "IndexError", !.pc = "idle"]
               ELSE IF conf.line.kw \in DOMAIN Parsers
               THEN [conf EXCEPT !.method = Parsers[conf.line.kw], !.pc = "call"]
               ELSE [conf EXCEPT !.err = "UnknownConfigKeywordError", !.pc = "idle"]
    /\ UNCHANGED << gvars, dvars, pvars, cmd >>

\* line 166: the registered method runs on the rest of the words
CallParser ==
    /\ conf.pc = "call"
    /\ LET out == CallMethod(conf.method, conf.config, conf.line.opts)
       IN  conf' = [conf EXCEPT !.config = out.config, !.err = out.err,
                                !.ret = out.ret, !.pc = "idle"]
    /\ UNCHANGED << gvars, dvars, pvars, cmd >>

NextC ==
    \/ CallParseLine
    \/ Lookup
    \/ CallParser

\* a DavTKConfig object after __init__
InitC ==
    /\ conf = NewConf
    /\ cmd = NoCmd
    /\ NoObject
    /\ NotDecoding

SpecC == InitC /\ [][NextC]_vars

\* ------------------------------------------------ claims on the enumeration
gB == ReciprocalLattice(gargs.sh, gargs.st)

gNbmax == generate_nbmax(gargs.encut, gB)

Count(s, G) == Cardinality({p \in 1..Len(s) : s[p] = G})

Neg(G) == << -G[1], -G[2], -G[3] >>

\* C2: every G-vector _generate_G_points returns, gamma mode on or off, has
\* kinetic energy |(k + G).b|^2 / C strictly below encut
C2_EnergyStrictlyBelowCutoff ==
    gpc = "ret" =>
        \A b \in {gB} :
            \A p \in 1..Len(gret) :
                EnergyK2(gargs.kpoint, gret[p], b) < KDen * KDen * gargs.encut

\* a call returned vectors and met a triple whose energy equals the cutoff
C2_Witness ==
    /\ gpc = "ret"
    /\ Len(gret) > 1
    /\ \E G \in Box(gNbmax) :
          /\ EnergyK2(gargs.kpoint, G, gB) = KDen * KDen * gargs.encut
          /\ Count(gret, G) = 0
          /\ G[1] > 0

\* C3: with gamma-only mode off, _generate_G_points returns exactly the
\* triples of the search box whose energy is below encut, each exactly once,
\* and applies none of the gamma-only exclusion rules
C3_NonGammaReturnsEveryVectorBelowCutoff ==
    (gpc = "ret" /\ ~gargs.gamma) =>
        \A box \in {Box(gNbmax)}, b \in {gB} :
            /\ \A p \in 1..Len(gret) : gret[p] \in box
            /\ \A G \in box :
                  Count(gret, G) =
                      IF EnergyK2(gargs.kpoint, G, b) < KDen * KDen * gargs.encut
                      THEN 1 ELSE 0

\* C4: with gamma-only mode on and k-point (0,0,0), of every pair G, -G of
\* the search box below the cutoff exactly one is returned, and G = (0,0,0)
\* is returned exactly once when it is below the cutoff
C4_GammaExactlyOneOfEachPair ==
    (gpc = "ret" /\ gargs.gamma /\ gargs.kpoint = <<0, 0, 0>>) =>
        \A b \in {gB} :
            \A G \in Box(gNbmax) :
                EnergyK2(gargs.kpoint, G, b) < KDen * KDen * gargs.encut =>
                    IF G = <<0, 0, 0>>
                    THEN Count(gret, G) = 1
                    ELSE Count(gret, G) + Count(gret, Neg(G)) = 1

\* a gamma-only call at k = 0 returned vectors of the planes k1 = 0 and k1 > 0
C4_Witness ==
    /\ gpc = "ret"
    /\ gargs.gamma
    /\ gargs.kpoint = <<0, 0, 0>>
    /\ \E p, q, r \in 1..Len(gret) :
          /\ gret[p] = <<0, 0, 0>>
          /\ gret[q][1] = 0 /\ gret[q][2] = 0 /\ gret[q][3] > 0
          /\ gret[r][1] > 0 /\ gret[r][2] < 0

\* the place of a component in the visiting order 0, 1, ..., n, -n, ..., -1
Rank(x, n) == IF x < 0 THEN x + 2 * n + 1 ELSE x

\* the place of G in the nested order: axis 3 outermost, axis 1 innermost
OrderKey(G, nbmax) ==
    (Rank(G[3], nbmax[3]) * (2 * nbmax[2] + 1) + Rank(G[2], nbmax[2]))
        * (2 * nbmax[1] + 1) + Rank(G[1], nbmax[1])

\* C5: the returned sequence is in the nested iteration order, axis 3
\* outermost, axis 2 in the middle, axis 1 innermost, each axis visiting
\* 0..nbmax and then -nbmax..-1
C5_OutputInIterationOrder ==
    gpc = "ret" =>
        \A n \in {gNbmax} :
            /\ \A p \in 1..Len(gret) : gret[p] \in Box(n)
            /\ \A p \in 1..(Len(gret) - 1) :
                  OrderKey(gret[p], n) < OrderKey(gret[p + 1], n)

\* a call returned vectors that differ on axis 2 only and on axis 3 only, with
\* negative components after non-negative ones
C5_Witness ==
    /\ gpc = "ret"
    /\ \E p, q, r, s \in 1..Len(gret) :
          /\ p < q /\ q < r /\ r < s
          /\ gret[p] = <<1, 0, 0>>
          /\ gret[q] = <<0, 1, 0>>
          /\ gret[r] = <<0, -1, 0>>
          /\ gret[s] = <<0, 0, 1>>


\* ---------------------------------------------------- claims on the decoder
\* C1: for every (spin, k-point) record, when the number of G-vectors
\* generated differs from the plane-wave count the record declares, decoding
\* ends with an error before any coefficient record of that k-point is read,
\* and no decoder is returned
C1_CountMismatchAborts ==
    \A i \in 1..Len(trace) :
        (trace[i].kind = "gen" /\ trace[i].got # trace[i].count) =>
            /\ i = Len(trace)
            /\ pc = "failed"
            /\ err = "ValueError"

\* the count of a later k-point record was off after the coefficients of an
\* earlier one had been read, and more vectors were generated than declared
C1_Witness ==
    /\ pc = "failed"
    /\ Len(trace) > 0
    /\ trace[Len(trace)].kind = "gen"
    /\ trace[Len(trace)].got > trace[Len(trace)].count
    /\ \E i \in 1..Len(trace) : trace[i].kind = "coeff" /\ trace[i].got > 0

\* C6: a file that ends before the last record its header implies makes
\* decoding fail; no decoder holding empty or short arrays is returned
C6_TruncatedFileIsRejected ==
    (/\ file.flen <= (RecordCount(file) - 1) * file.L
     /\ file.recl = 8 * file.L) => pc # "done"

\* C7: a record length that is not positive, or not a multiple of 8, makes
\* decoding fail before any padding or later record is read
C7_BadRecordLengthIsRejected ==
    (/\ file.flen >= 3
     /\ file.recl <= 0 \/ file.recl % 8 # 0) =>
        /\ pc # "done"
        /\ \A i \in 1..Len(trace) : trace[i].kind = "hdr1"

\* C8: a precision tag that is neither 45200 nor 45210 makes decoding fail
\* right after the first three header values: no padding and no later record
\* is read, and no decoder is returned
C8_BadTagFailsAfterThreeValues ==
    (/\ file.flen >= 3
     /\ file.rtag # 45200 /\ file.rtag # 45210) =>
        \/ pc = "hdr1" /\ trace = << >>
        \/ /\ pc = "failed"
           /\ err = "ValueError"
           /\ pos = 3
           /\ trace = << Ev("hdr1", 0, 3, 3) >>

\* a file with an unrecognized tag and all its records was rejected
C8_Witness ==
    /\ file.rtag # 45200 /\ file.rtag # 45210
    /\ file.flen = RecordCount(file) * file.L
    /\ pc = "failed"
    /\ Len(trace) = 1

\* C9: in every spin channel after the first, a k-point that does not match
\* the one recorded for the same index in the first channel always aborts
\* the decoding; when they match the stored list of k-points is unchanged
C9_SkewedKpointAlwaysAborts ==
    /\ (/\ pc \in {"enocc", "padk", "gen", "coeff", "done"}
        /\ loc.ispin >= 1
        /\ Len(loc.kpoint) = 3) =>
           loc.kpoint = kpoints[loc.ink + 1]
    /\ Len(kpoints) <= hdr.nk

\* a file as a writer of the kind the gamma argument names produces it
WellFormed(f, g) ==
    /\ f.rtag \in {45200, 45210}
    /\ f.spin \in {1, 2} /\ f.nk >= 1 /\ f.nb >= 1
    /\ f.L >= FitL(f)
    /\ f.recl = 8 * f.L
    /\ f.flen = RecordCount(f) * f.L
    /\ \A idx \in 1..(f.spin * f.nk) :
          /\ f.np[idx] = WrittenCount(f.kp[idx], g, ReciprocalLattice(f.sh, f.st),
                                      TruncDiv(f.encutNum, EDen))
          /\ idx > f.nk => f.kp[idx] = f.kp[idx - f.nk]
          /\ g => f.kp[idx] = <<0, 0, 0>>

\* the kind of the reads of record r: header 1, header 2, a k-point record
\* followed by nb coefficient records
KindOfRecord(f, r) ==
    IF r = 0 THEN {"hdr1", "pad"}
    ELSE IF r = 1 THEN {"hdr2", "pad"}
    ELSE IF (r - 2) % (1 + f.nb) = 0 THEN {"krec", "enocc", "pad"}
    ELSE {"coeff", "pad"}

ReadsOf(t) == {i \in 1..Len(t) : t[i].kind # "gen" /\ t[i].got > 0}

\* C10: on a well-formed file the records are read in the order header 1,
\* header 2, then per spin channel and k-point the k-point record and its nb
\* coefficient records; the terminal state is reached after exactly
\* 2 + spin*nk*(1 + nb) records
C10_WellFormedFileIsReadToItsEnd ==
    WellFormed(file, gamma) =>
        /\ pc # "failed"
        /\ \A i \in ReadsOf(trace) :
              /\ trace[i].kind \in KindOfRecord(file, trace[i].pos \div file.L)
              /\ \A j \in ReadsOf(trace) : i < j =>
                    trace[i].pos + trace[i].got <= trace[j].pos
        /\ pc = "done" =>
              /\ pos = RecordCount(file) * file.L
              /\ {trace[i].pos \div file.L : i \in ReadsOf(trace)}
                     = 0..(RecordCount(file) - 1)

\* the reads that open a record: the first read of each header record and of
\* each k-point record, and the coefficient read of each band
StartsRecord(e) ==
    \/ e.kind \in {"hdr1", "coeff"}
    \/ e.kind = "hdr2" /\ e.count = 3
    \/ e.kind = "krec" /\ e.count = 1

\* a file whose record length is 8 * L bytes, whose records hold their
\* payload, and which has all the records its header implies
PayloadFits(f) ==
    /\ f.recl = 8 * f.L
    /\ f.L >= FitL(f)
    /\ f.flen = RecordCount(f) * f.L

\* C11: when the payload of every record fits in the record length, every
\* record, for both precision tags, is consumed with its padding up to the
\* record length: every record starts at a multiple of the record length and
\* every padding read ends at one
C11_RecordsConsumeRecordLength ==
    PayloadFits(file) =>
        /\ \A i \in 1..Len(trace) :
              /\ StartsRecord(trace[i]) => trace[i].pos % file.L = 0
              /\ trace[i].kind = "pad" =>
                    /\ trace[i].count >= 0
                    /\ trace[i].got = trace[i].count
                    /\ (trace[i].pos + trace[i].got) % file.L = 0
        /\ pc \in {"hdr2", "krec", "done"} => pos % file.L = 0

\* a file of two spin channels with double-precision coefficients was read
\* to its end, and a coefficient record of it had padding
C11_Witness ==
    /\ pc = "done"
    /\ PayloadFits(file)
    /\ file.rtag = RtagDouble
    /\ file.spin = 2
    /\ \E i \in 1..(Len(trace) - 1) :
          /\ trace[i].kind = "coeff" /\ trace[i].got > 0
          /\ trace[i + 1].kind = "pad" /\ trace[i + 1].got > 0

\* C12: after a successful decode every stored coefficient sequence has as
\* many entries as the G-vector set stored for its k-point, which is the
\* plane-wave count the record of that k-point declares
C12_CoefficientsMatchGVectors ==
    pc = "done" =>
        \A c \in DOMAIN coeffs : \A k \in 1..hdr.nk : \A n \in 1..hdr.nb :
            /\ ~coeffs[c][k][n].isNone
            /\ ~Gpoints[k].isNone
            /\ Len(coeffs[c][k][n].val) = Len(Gpoints[k].val)
            /\ Len(coeffs[c][k][n].val) = FileNplane(file, (c - 1) * hdr.nk + k)


\* ------------------------------------- claims on fft_mesh and get_parchg
\* a get_parchg call that reached its last statement
RanToEnd(c) == c.op = "get_parchg" /\ c.pc = "raised" /\ c.at = "return"

\* a get_parchg call that has built its dictionary data
DataBuilt(c) == c.op = "get_parchg" /\ (c.pc \in {"restore", "return"} \/ RanToEnd(c))

\* no later call has touched self.ng since call t ended
Quiet(t) == t = 1 => calls[2].pc = "idle"

\* C13: after a get_parchg call that runs to its end, ng is what it was
\* before the call; two successive calls with the same arguments build meshes
\* of the original ng times scale and the same densities
C13_NgRestoredBetweenCalls ==
    /\ \A t \in DOMAIN calls :
          (RanToEnd(calls[t]) /\ Quiet(t)) =>
              /\ ng = calls[t].ng_in
              /\ ng = wav.ng0
    /\ \A t \in DOMAIN calls :
          RanToEnd(calls[t]) =>
              \A i \in 1..Len(calls[t].shapes) :
                  calls[t].shapes[i] = ScaleNg(wav.ng0, calls[t].scale)
    /\ (Len(calls) = 2 /\ RanToEnd(calls[1]) /\ RanToEnd(calls[2])) =>
          calls[1].data = calls[2].data

\* the second of two calls with a scale above 1, each building two meshes,
\* has run to its end
C13_Witness ==
    /\ Len(calls) = 2
    /\ RanToEnd(calls[1]) /\ RanToEnd(calls[2])
    /\ calls[2].scale > 1
    /\ Len(calls[2].shapes) = 2
    /\ calls[2].data # << >>

\* C14: on every exit from get_parchg, an exit by an error included, ng is
\* what it was before the call
C14_NgRestoredOnEveryExit ==
    \A t \in DOMAIN calls :
        (calls[t].op = "get_parchg" /\ Ended(calls[t]) /\ Quiet(t)) =>
            ng = calls[t].ng_in

\* C15: when two calls interleave on one object, every get_parchg call builds
\* its meshes with the original ng times its scale, an fft_mesh call uses the
\* original ng, and after the calls ng is the original one
C15_InterleavedCallsKeepNg ==
    /\ \A t \in DOMAIN calls : \A i \in 1..Len(calls[t].shapes) :
          calls[t].shapes[i] =
              IF calls[t].op = "get_parchg"
              THEN ScaleNg(wav.ng0, calls[t].scale)
              ELSE wav.ng0
    /\ (\A t \in DOMAIN calls : Ended(calls[t])) => ng = wav.ng0

\* C16: for a decoder opened with gamma off, the grid fft_mesh returns with
\* shift off holds coefficient c_i at the index of G_i and zero everywhere
\* else
C16_NonGammaMeshHoldsCoefficientsOnly ==
    \A t \in DOMAIN calls :
        (/\ calls[t].op = "fft_mesh" /\ calls[t].pc = "returned"
         /\ ~calls[t].shift /\ ~wav.gamma) =>
            LET c == calls[t]
                G == wav.Gpoints[c.kpoint + 1]
                n == c.ret.shape
            IN  /\ \A i \in 1..Len(G) :
                      MeshGet(c.ret, IndexOf(G[i], n)) = c.tcoeffs[i]
                /\ \A x \in DOMAIN c.ret.cells :
                      c.ret.cells[x] # Zero =>
                          \E i \in 1..Len(G) : x = IndexOf(G[i], n)

\* the index of G in the grid a call returned: G + ng/2 without the shift, G
\* modulo ng with it
GridIndex(c, G) ==
    IF c.shift
    THEN ShiftIndex(IndexOf(G, c.ret.shape), c.ret.shape)
    ELSE IndexOf(G, c.ret.shape)

\* C17: for a decoder opened in gamma-only mode, the grid fft_mesh returns
\* holds c at the index of every stored G other than (0,0,0) and conj(c) at
\* the index of -G, the coefficient of (0,0,0) at the centre, and each cell
\* of the search box is the conjugate of the mirrored one
C17_GammaMeshIsHermitian ==
    \A t \in DOMAIN calls :
        (calls[t].op = "fft_mesh" /\ calls[t].pc = "returned" /\ wav.gamma) =>
            LET c == calls[t]
                G == wav.Gpoints[c.kpoint + 1]
            IN  /\ \A i \in 1..Len(G) :
                      /\ MeshGet(c.ret, GridIndex(c, G[i])) = c.tcoeffs[i]
                      /\ G[i] # <<0, 0, 0>> =>
                            MeshGet(c.ret, GridIndex(c, Neg(G[i])))
                                = << c.tcoeffs[i][1], -c.tcoeffs[i][2] >>
                      /\ (G[i] = <<0, 0, 0>> /\ ~c.shift) =>
                            MeshGet(c.ret, Half(c.ret.shape)) = c.tcoeffs[i]
                /\ \A H \in Box(wav.nbmax) \ {<<0, 0, 0>>} :
                      MeshGet(c.ret, GridIndex(c, Neg(H)))
                          = << MeshGet(c.ret, GridIndex(c, H))[1],
                               -MeshGet(c.ret, GridIndex(c, H))[2] >>

\* a gamma-only object returned an unshifted grid of several vectors
C17_Witness ==
    \E t \in DOMAIN calls :
        /\ calls[t].op = "fft_mesh" /\ calls[t].pc = "returned"
        /\ wav.gamma /\ ~calls[t].shift
        /\ Len(calls[t].tcoeffs) > 2

InGrid(t, n) == \A ax \in 1..3 : 0 <= t[ax] /\ t[ax] < n[ax]

\* C18: with ng = 3 * nbmax or 4 * nbmax, times a positive scale, whenever
\* fft_mesh creates or fills a mesh the indices of G and of -G are inside the
\* grid for every G of the search box and no two vectors share a cell;
\* fft_mesh never indexes the mesh out of range
C18_IndicesInsideGrid ==
    /\ (\E t \in DOMAIN calls : calls[t].pc \in {"zeros", "fill"}) =>
          \A box \in {Box(wav.nbmax)} :
              /\ \A G \in box : InGrid(IndexOf(G, ng), ng) /\ InGrid(MirrorIndexOf(G, ng), ng)
              /\ Cardinality({IndexOf(G, ng) : G \in box}) = Cardinality(box)
    /\ \A t \in DOMAIN calls : calls[t].at # "fill"

\* a get_parchg call with scale above 1 on an object of the finer grid has
\* filled a mesh
C18_Witness ==
    \E t \in DOMAIN calls :
        /\ calls[t].op = "get_parchg" /\ calls[t].pc = "density"
        /\ calls[t].scale > 1
        /\ wav.ng0 = NgOf(wav.nbmax, "accurate")
        /\ ng = ScaleNg(wav.ng0, calls[t].scale)
        /\ Cardinality(DOMAIN calls[t].mesh.cells) > 2

\* the density get_parchg builds of spin channel s in call c, with or without
\* the sign of the wavefunction
DensityOf(c, s, signed) ==
    [wfr |-> [mesh |-> fft_mesh(wav, ScaleNg(c.ng_in, c.scale), c.kpoint, c.band, s, TRUE),
              N |-> ProdNg(ScaleNg(c.ng_in, c.scale))],
     signed |-> signed]

\* C19: get_parchg builds one of three outputs: for one spin channel 'total'
\* alone, whatever the spin argument; for two channels and no spin selected
\* 'total' = up + down and 'diff' = up - down; for two channels and spin 0 or
\* 1 'total' of that channel alone
C19_ParchgBuildsOneOfThreeOutputs ==
    \A t \in DOMAIN calls :
        DataBuilt(calls[t]) =>
            LET c == calls[t]
            IN  IF wav.spin # 2
                THEN /\ DOMAIN c.data = {"total"}
                     /\ c.data["total"].op = "one"
                     /\ c.data["total"].a = DensityOf(c, 0, c.phase)
                ELSE IF c.spin = << >>
                THEN /\ DOMAIN c.data = {"total", "diff"}
                     /\ c.data["total"].op = "sum"
                     /\ c.data["diff"].op = "difference"
                     /\ c.data["total"].a = DensityOf(c, 0, FALSE)
                     /\ c.data["total"].b = DensityOf(c, 1, FALSE)
                     /\ c.data["diff"].a = DensityOf(c, 0, FALSE)
                     /\ c.data["diff"].b = DensityOf(c, 1, FALSE)
                ELSE /\ DOMAIN c.data = {"total"}
                     /\ c.data["total"].op = "one"
                     /\ c.data["total"].a = DensityOf(c, c.spin[1], c.phase)

\* a call on an object of two spin channels built 'total' of channel 1 alone
\* from several coefficients
C19_Witness ==
    \E t \in DOMAIN calls :
        /\ DataBuilt(calls[t])
        /\ wav.spin = 2
        /\ calls[t].spin = <<1>>
        /\ DOMAIN calls[t].data = {"total"}
        /\ Len(calls[t].tcoeffs) > 1

\* C20: get_parchg warns exactly when phase is set and the k-point selected
\* is not (0,0,0); the warning is not an error: the call goes on and builds
\* the density it builds for these arguments
C20_WarningIffPhaseOffGamma ==
    \A t \in DOMAIN calls :
        (/\ calls[t].op = "get_parchg"
         /\ calls[t].pc \notin {"idle", "warn"}
         /\ calls[t].kpoint < wav.nk) =>
            LET c == calls[t]
            IN  /\ c.warned <=> (c.phase /\ wav.kpoints[c.kpoint + 1] # <<0, 0, 0>>)
                /\ c.at # "warn"
                /\ (c.warned /\ DataBuilt(c)) =>
                      \A s \in {Channels(wav.spin, c.spin)} :
                          c.data = DataOf(wav, c.spin,
                                          [i \in 1..Len(s) |->
                                              DensityOf(c, s[i], Signed(wav, c.spin, c.phase))])

\* a call with phase set at a k-point other than (0,0,0) warned and went on
\* to its last statement
C20_Witness ==
    \E t \in DOMAIN calls :
        /\ calls[t].warned
        /\ RanToEnd(calls[t])
        /\ calls[t].data # << >>

\* the arguments of the call select a k-point, a band and a spin channel the
\* object holds
ArgsInRange(c) ==
    /\ c.kpoint < wav.nk
    /\ c.band < wav.nb
    /\ \A i \in 1..Len(c.spin) : wav.spin = 2 => c.spin[i] < 2

\* C21: on a decoded object, a get_parchg call whose k-point, band and spin
\* arguments are in range ends by returning the density to its caller, not
\* in an error
C21_ParchgReturnsDensity ==
    \A t \in DOMAIN calls :
        (/\ calls[t].op = "get_parchg"
         /\ Ended(calls[t])
         /\ ArgsInRange(calls[t])) =>
            /\ calls[t].pc = "returned"
            /\ calls[t].err = ""

\* a call of one of the two methods that only read the object
ReadOnlyCall(c) == c.op \in {"fft_mesh", "evaluate_wavefunc"}

\* C22: evaluate_wavefunc and fft_mesh are read-only: during and after either
\* call every field of the object, ng included, is what it was when the call
\* was made, and the same call made twice in a row ends the same way with
\* the same result
C22_MeshAndEvaluateAreReadOnly ==
    /\ \A t \in DOMAIN calls :
          (ReadOnlyCall(calls[t]) /\ calls[t].pc # "idle") =>
              /\ wav = calls[t].self_in
              /\ ng = calls[t].ng_in
    /\ (/\ Len(calls) = 2
        /\ ReadOnlyCall(calls[1]) /\ ReadOnlyCall(calls[2])
        /\ Ended(calls[1]) /\ Ended(calls[2])) =>
          /\ calls[1].self_in = calls[2].self_in
          /\ calls[1].ng_in = calls[2].ng_in
          /\ calls[1].pc = calls[2].pc
          /\ calls[1].err = calls[2].err
          /\ calls[1].ret = calls[2].ret
          /\ calls[1].val = calls[2].val

\* the second of two evaluate_wavefunc calls away from the origin, at a
\* k-point other than (0,0,0), has returned a value with phase factors
C22_Witness ==
    /\ Len(calls) = 2
    /\ calls[1].op = "evaluate_wavefunc" /\ calls[1].pc = "returned"
    /\ calls[2].op = "evaluate_wavefunc" /\ calls[2].pc = "returned"
    /\ calls[2].kpoint > 0
    /\ calls[2].val.rest # << >>

\* the sum of the real parts (part 1) or imaginary parts (part 2) of a
\* sequence of complex numbers
RECURSIVE SumOfParts(_, _)
SumOfParts(c, part) ==
    IF c = << >> THEN 0 ELSE Head(c)[part] + SumOfParts(Tail(c), part)

C23_UnitCaseReached ==
    \E t \in DOMAIN calls :
        /\ calls[t].op = "evaluate_wavefunc"
        /\ calls[t].pc = "returned"
        /\ calls[t].r = <<0, 0, 0>>
        /\ calls[t].tcoeffs = << <<1, 0>> >>

\* C24: the cutoff of the energy test is the header's cutoff, not a rounded
\* or truncated one: every G-vector the loops do not skip whose energy is
\* below the header's cutoff, one between the integer part of the cutoff and
\* the cutoff included, is among the G-vectors generated for its k-point
C24_CutoffIsNotTruncated ==
    \A k \in DOMAIN Gpoints :
        (~Gpoints[k].isNone /\ k \in DOMAIN kpoints /\ Len(kpoints[k]) = 3) =>
            \A G \in Box(generate_nbmax(hdr.encut + 1, hdr.b)) :
                (/\ ~Skip(gamma, G[1], G[2], G[3])
                 /\ gamma => G[1] >= 0
                 /\ EnergyK2(kpoints[k], G, hdr.b) * EDen < KDen * KDen * file.encutNum) =>
                    \E i \in DOMAIN Gpoints[k].val : Gpoints[k].val[i] = G

\* the triples within nbmax + 3 on every axis: with the k-points of the runs,
\* which have no coordinate above 3, no triple outside is below the cutoff
WideBox(nbmax) == Box(<< nbmax[1] + 3, nbmax[2] + 3, nbmax[3] + 3 >>)

\* C25: the search box is never too small: for every lattice, cutoff and
\* k-point, nbmax is at least 1 on every axis and every integer triple G whose
\* energy |(k + G).b|^2 / C is below encut has every component within nbmax
C25_SearchBoxNeverTooSmall ==
    gpc = "ret" =>
        \A b \in {gB}, nbmax \in {gNbmax} :
            /\ \A ax \in 1..3 : nbmax[ax] >= 1
            /\ \A G \in WideBox(nbmax) :
                  EnergyK2(gargs.kpoint, G, b) < KDen * KDen * gargs.encut =>
                      \A ax \in 1..3 : -nbmax[ax] <= G[ax] /\ G[ax] <= nbmax[ax]

\* the same for the k-points of the first Brillouin zone alone
C25_NearKPointsOnly ==
    (gpc = "ret" /\ gargs.kpoint \in KPointSet) => C25_SearchBoxNeverTooSmall

\* G modulo ng on every axis
ModIndex(G, n) == << G[1] % n[1], G[2] % n[2], G[3] % n[3] >>

\* C26: with shift on, the grid fft_mesh returns holds the coefficient of
\* every stored G at index G modulo ng on every axis, the coefficient of
\* (0,0,0) at index (0,0,0); with shift off the coefficient of (0,0,0) is at
\* the centre index ng / 2 (integer division) on every axis
C26_ShiftPutsGAtGModuloNg ==
    \A t \in DOMAIN calls :
        (calls[t].op = "fft_mesh" /\ calls[t].pc = "returned") =>
            LET c == calls[t]
                G == wav.Gpoints[c.kpoint + 1]
                n == c.ret.shape
            IN  /\ c.shift =>
                      \A i \in 1..Len(G) :
                          MeshGet(c.ret, ModIndex(G[i], n)) = c.tcoeffs[i]
                /\ \A i \in 1..Len(G) :
                      G[i] = <<0, 0, 0>> =>
                          MeshGet(c.ret, IF c.shift THEN <<0, 0, 0>> ELSE Half(n))
                              = c.tcoeffs[i]

\* the shift by itself: every cell of the centred grid, the one at index
\* x + ng / 2, is at index x modulo ng of the grid returned with shift on, and
\* the coefficient of (0,0,0) is where C26 says
C26_ShiftMovesEveryCell ==
    \A t \in DOMAIN calls :
        (calls[t].op = "fft_mesh" /\ calls[t].pc = "returned") =>
            LET c == calls[t]
                G == wav.Gpoints[c.kpoint + 1]
                n == c.ret.shape
            IN  /\ c.shift =>
                      /\ \A x \in Box(wav.nbmax) :
                            MeshGet(c.ret, ModIndex(x, n)) = MeshGet(c.mesh, IndexOf(x, n))
                      /\ Cardinality(DOMAIN c.ret.cells) = Cardinality(DOMAIN c.mesh.cells)
                /\ (c.shift /\ wav.gamma) =>
                      \A i \in 1..Len(G) :
                          MeshGet(c.ret, ModIndex(G[i], n)) = c.tcoeffs[i]
                /\ \A i \in 1..Len(G) :
                      G[i] = <<0, 0, 0>> =>
                          MeshGet(c.ret, IF c.shift THEN <<0, 0, 0>> ELSE Half(n))
                              = c.tcoeffs[i]

\* C27: a file whose header holds a number of spin channels other than 1 and
\* 2 is rejected with an error: __init__ never ends normally on it, so there
\* is no object whose G-vector sets are unset or whose coefficients were
\* overwritten by a later spin channel
C27_BadSpinCountIsRejected ==
    file.spin \notin {1, 2} => pc # "done"

\* __init__ ended normally on a header of 3 spin channels, the coefficients
\* of channel 2 in the slots of channel 0
C27_ThreeChannelsOverwrite ==
    /\ pc = "done" /\ err = ""
    /\ file.spin = 3
    /\ Len(coeffs) = 1
    /\ coeffs[1][1][1] = Slot([m \in 1..file.np[1] |-> CoeffValue(2 * file.nk + 1, 1, m)])

\* __init__ ended normally on a header of 0 spin channels, every G-vector set
\* unset
C27_NoChannelLeavesNone ==
    /\ pc = "done" /\ err = ""
    /\ file.spin = 0
    /\ Gpoints # << >>
    /\ \A k \in DOMAIN Gpoints : Gpoints[k].isNone

\* ------------------------------------------------------ claims on parse_line
\* the first word of a line that is not blank: the characters from the first
\* one that is not whitespace up to the next whitespace or the end
FirstWord(line) ==
    CHOOSE w \in { SubSeq(line, i, j) : i \in 1..Len(line), j \in 1..Len(line) } :
        \E i \in 1..Len(line) : \E j \in i..Len(line) :
            /\ w = SubSeq(line, i, j)
            /\ \A p \in 1..(i - 1) : line[p] = " "
            /\ \A p \in i..j : line[p] # " "
            /\ j = Len(line) \/ line[j + 1] = " "

\* word w is a prefix of keyword K
PrefixOf(w, K) == \E n \in 1..Len(K) : w = SubSeq(K, 1, n)

\* the registered keywords, settings and commands together, w is a prefix of
Candidates(w) == {K \in cmd.settings \cup cmd.parsers : PrefixOf(w, K)}

OwnMethod ==
    ("colormap" :> "parse_colormap") @@ ("atom_type" :> "parse_atom_type")
        @@ ("bond_type" :> "parse_bond_type")
        @@ ("cell_box_color" :> "parse_cell_box_color")
        @@ ("picked_color" :> "parse_picked_color")
        @@ ("background_color" :> "parse_background_color")

\* the entries of self.config that belong to each keyword
OwnEntries ==
    ("colormap" :> {"colormaps"}) @@ ("atom_type" :> {"atom_types"})
        @@ ("bond_type" :> {"bond_types"})
        @@ ("cell_box_color" :> {"cell_box_color", "cell_box_prop"})
        @@ ("picked_color" :> {"picked_color", "picked_prop"})
        @@ ("background_color" :> {"background_color"})

\* a call of parse_line has returned or raised
ConfCallOver == conf.pc = "idle" /\ conf.n >= 1 /\ conf.line.words > 0

\* C29: a line starting with a registered keyword K runs the parse function
\* for K and changes only the configuration entry for K; a first word that
\* is not registered raises UnknownConfigKeywordError and leaves the
\* configuration unchanged
C29_KeywordRunsItsOwnParser ==
    ConfCallOver =>
        LET K == conf.line.kw
        IN  IF K \in DOMAIN OwnMethod
            THEN /\ conf.method = OwnMethod[K]
                 /\ \A e \in (DOMAIN conf.config) \ OwnEntries[K] :
                       conf.config[e] = conf.before[e]
            ELSE /\ conf.err = "UnknownConfigKeywordError"
                 /\ conf.config = conf.before

\* the claim's example: a cell_box_color line has been handled, and
\* config["bond_types"] has a new entry while config["cell_box_color"] is
\* as before
C29_CellBoxColorMakesBondType ==
    /\ ConfCallOver
    /\ conf.line.kw = "cell_box_color"
    /\ conf.line.opts = ("-color" :> <<10, 0, 0>>)
    /\ conf.err = ""
    /\ None \in DOMAIN conf.config.bond_types
    /\ None \notin DOMAIN conf.before.bond_types
    /\ conf.config.cell_box_color = conf.before.cell_box_color

\* the three keywords registered to their own parse function, and the words
\* that are not registered, behave as the claim says
C29_HoldsForOwnRegistrations ==
    ConfCallOver /\ conf.line.kw \notin {"cell_box_color", "picked_color", "background_color"}
        => C29_KeywordRunsItsOwnParser

=============================================================================
